---- MODULE Spec2Model ----
(***************************************************************************)
(* A model of grid-cli's device I/O and configuration-transfer engine:     *)
(* the serial MessageFramer, the SerialConnection waiters, the GridDevice  *)
(* request/response correlator and transfer loops, its module discovery,   *)
(* shutdown and waitForModules, and the on-disk configuration codec.       *)
(* Every part has its own specification over the                           *)
(* shared variables; the variables of the other parts stay at their idle   *)
(* values.                                                                 *)
(***************************************************************************)
EXTENDS Integers, Sequences, FiniteSets, TLC

VARIABLES
    frBuffer,     \* MessageFramer.buffer
    frEmitted,    \* the payloads pushed downstream so far, in order
    frInput,      \* bytes of the serial stream not yet handed to _transform
    frPayloads,   \* the payloads the stream was built from
    frOverflow,   \* whether _transform has raised the overflow error
    frFlushed,    \* whether _flush has run (stream end)
    frSplit,      \* whether some chunk ended inside a frame
    frReset,      \* the last overflow reset: payloads emitted before it, input left after it
    frDropped,    \* the bytes _flush found in the buffer and discarded
    mfMessage,    \* matchesFilter: the DecodedMessage argument
    mfFilter,     \* matchesFilter: the ResponseFilter argument
    mfResult,     \* matchesFilter: "none" before the call, then its result
    command,        \* transfer: "none", then "pull" or "push"
    pc,             \* transfer: "idle", "fetching", "pushing", "done", "error"
    thrown,         \* transfer: the error class thrown, "" when none
    moduleType,     \* transfer: module.type of the one module on the device
    includePages,   \* transfer: includePages (given = a Set, not given = null)
    excludePages,   \* transfer: excludePages (given = a Set, not given = null)
    pageNumbers,    \* fetchModuleConfig: pageNumbers; push: the filtered config's page numbers
    totalEvents,    \* fetchModuleConfig: totalEvents
    maxFailures,    \* fetchModuleConfig: maxFailures
    progressIndex,  \* fetchModuleConfig: progressIndex
    failedCount,    \* fetchModuleConfig: failedCount
    pages,          \* fetchModuleConfig: page numbers of pages; push: page numbers sent
    configPages,    \* push: page numbers of config.pages as read from disk
    isOpen,         \* SerialConnection._isOpen
    port,           \* SerialConnection.port and the state of the serial port behind it
    listening,      \* SerialConnection: port and framer listeners attached
    connWaiters,    \* SerialConnection.pendingWaiters (waiter ids, registration order)
    connWaiterState,\* per waitForMessage waiter: "unused", "pending" or how it settled
    connDelivered,  \* the waiters that the last "message" event resolved
    closeCalls,     \* SerialConnection: number of close() calls made
    task,               \* GridDevice: the calls in progress, one record per task
    pendingWaiters,     \* GridDevice.pendingWaiters
    pageChangeDisabled, \* GridDevice.pageChangeDisabled
    closing,            \* GridDevice.closing
    modules,            \* GridDevice.modules, in insertion order
    ready,              \* tasks whose awaited promise has settled, in order
    codecConfig,    \* codec: the ModuleConfig pages fetched from the device
    codecDefaults,  \* codec: defaultConfig of each event in the protocol library
    codecDir,       \* codec: the module directory writeConfig produced
    readBack,       \* codec: the pages readConfig returned
    writtenAgain,   \* codec: what writeConfig wrote for the pages read back
    codecPc,        \* codec: "idle", "fetched", "written", "read"
    heartbeats,     \* session: the HEARTBEAT messages handleMessage has handled, in order
    editorHeartbeatTimer, \* GridDevice.editorHeartbeatTimer is set
    messageHandler, \* GridDevice.messageHandler is attached to the connection
    closePc,        \* GridDevice.close(): the statement the call has reached
    closeVia,       \* who called close(): "close" (directly) or "disconnect"
    registered,     \* DeviceManager.devices holds the device
    now,            \* Date.now(), in ms
    wait,           \* the waitForModules call: its locals, its timer, its result
    pushPc,         \* pushCommand: the statement the run has reached
    pushOpts,       \* pushCommand: options.dryRun, options.clear, options.noStore
    pushConfig,     \* pushCommand: the module configuration readConfig returned
    pushErrors,     \* pushCommand: the validation diagnostics logged
    pushThrown,     \* pushCommand: the error class the run ended with, "" when none
    pushDevice,     \* pushCommand: the module of the device deviceManager.connect returned
    pageListInput,  \* page list: the text given to --pages or --skip-pages
    pageListResult, \* page list: what parsePageList made of it
    fetchedPages,   \* fetchModuleConfig: pages, each with its events
    fetchedEvents,  \* fetchModuleConfig: events of the page being fetched
    fetchAt         \* fetchModuleConfig: the element and the event type the loops are at

framerVars == <<frBuffer, frEmitted, frInput, frPayloads, frOverflow, frFlushed, frSplit, frReset, frDropped>>

filterVars == <<mfMessage, mfFilter, mfResult>>

transferVars == <<command, pc, thrown, moduleType, includePages, excludePages,
                  pageNumbers, totalEvents, maxFailures, progressIndex,
                  failedCount, pages, configPages>>

linkVars == <<isOpen, port, listening, connWaiters, connWaiterState, connDelivered, closeCalls>>

deviceVars == <<task, pendingWaiters, pageChangeDisabled, closing, modules, ready>>

codecVars == <<codecConfig, codecDefaults, codecDir, readBack, writtenAgain, codecPc>>

sessionVars == <<heartbeats, editorHeartbeatTimer, messageHandler, closePc, closeVia, registered, now, wait>>

pushVars == <<pushPc, pushOpts, pushConfig, pushErrors, pushThrown, pushDevice,
             pageListInput, pageListResult>>

fetchVars == <<fetchedPages, fetchedEvents, fetchAt>>

vars == <<framerVars, filterVars, transferVars, linkVars, deviceVars, codecVars, sessionVars, pushVars,
          fetchVars>>

\* what the actions of one part leave alone
notFramer == <<filterVars, transferVars, linkVars, deviceVars, codecVars, sessionVars, pushVars, fetchVars>>
notFilter == <<framerVars, transferVars, linkVars, deviceVars, codecVars, sessionVars, pushVars, fetchVars>>
notTransfer == <<framerVars, filterVars, linkVars, deviceVars, codecVars, sessionVars, pushVars, fetchVars>>
notLink == <<framerVars, filterVars, transferVars, deviceVars, codecVars, sessionVars, pushVars, fetchVars>>
notDevice == <<framerVars, filterVars, transferVars, linkVars, codecVars, sessionVars, pushVars, fetchVars>>
notCodec == <<framerVars, filterVars, transferVars, linkVars, deviceVars, sessionVars, pushVars, fetchVars>>
notSession == <<framerVars, filterVars, transferVars, codecVars, pushVars, fetchVars>>
notFetch == <<framerVars, filterVars, linkVars, deviceVars, codecVars, sessionVars, pushVars>>
notPush == <<framerVars, filterVars, transferVars, linkVars, deviceVars, codecVars, sessionVars, fetchVars>>

(***************************************************************************)
(* Generic helpers                                                         *)
(***************************************************************************)
RECURSIVE Flatten(_)
Flatten(ss) == IF ss = <<>> THEN <<>> ELSE Head(ss) \o Flatten(Tail(ss))

Range(seq) == {seq[i] : i \in 1..Len(seq)}

IsPrefix(s, t) == Len(s) <= Len(t) /\ SubSeq(t, 1, Len(s)) = s

SeqsUpTo(S, n) == UNION {[1..k -> S] : k \in 0..n}

(***************************************************************************)
(* MessageFramer (src/src/cli.ts, the framer part)                         *)
(***************************************************************************)
EOT == 4
NEWLINE == 10
\* an ordinary payload byte ("A"), as in 0x41 0x04 0xAA 0xBB 0x0A
PLAIN == 65
Byte == {EOT, NEWLINE, PLAIN}

\* MAX_BUFFER_SIZE is 1024 * 1024 in the source; the model scales it down so
\* that streams of MaxStream bytes reach both sides of the comparison.
MAX_BUFFER_SIZE == 6
\* the longest serial stream the model feeds to the framer
MaxStream == 9

\* The for loop of _transform: the first index i (0-based i >= 3, here
\* 1-based i >= 4) with buffer[i] = NEWLINE and buffer[i - 3] = EOT;
\* 0 stands for the source's -1.
FindMessageEndSkipsFirst(buf) ==
    LET hits == {i \in 5..Len(buf) : buf[i] = NEWLINE /\ buf[i - 3] = EOT}
    IN  IF hits = {} THEN 0 ELSE CHOOSE i \in hits : \A j \in hits : i <= j

FindMessageEnd(buf) ==
    LET hits == {i \in 4..Len(buf) : buf[i] = NEWLINE /\ buf[i - 3] = EOT}
    IN  IF hits = {} THEN 0 ELSE CHOOSE i \in hits : \A j \in hits : i <= j

\* The while (true) loop of _transform: emit every complete message of the
\* buffer, advancing past its newline.  Returns <<rest of buffer, emitted>>.
RECURSIVE ProcessMessages(_, _)
ProcessMessages(buf, out) ==
    LET messageEnd == FindMessageEnd(buf)
    IN  IF messageEnd = 0
        THEN <<buf, out>>
        ELSE ProcessMessages(SubSeq(buf, messageEnd + 1, Len(buf)),
                             Append(out, SubSeq(buf, 1, messageEnd - 1)))

\* frameMessage: the payload followed by one newline
frameMessage(data) == Append(data, NEWLINE)

\* no overflow reset so far
NoReset == [emitted |-> 0 - 1, input |-> <<>>]

FramerTransformKeepsBuffer ==
    /\ ~frFlushed
    /\ \E n \in 1..Len(frInput) :
          LET chunk == SubSeq(frInput, 1, n)
              appended == frBuffer \o chunk
          IN  /\ frInput' = SubSeq(frInput, n + 1, Len(frInput))
              /\ IF Len(appended) > MAX_BUFFER_SIZE
                 THEN /\ frBuffer' = appended
                      /\ frOverflow' = TRUE
                      /\ frReset' = [emitted |-> Len(frEmitted), input |-> frInput']
                      /\ UNCHANGED frEmitted
                 ELSE LET r == ProcessMessages(appended, frEmitted)
                      IN  /\ frBuffer' = r[1]
                          /\ frEmitted' = r[2]
                          /\ UNCHANGED <<frOverflow, frReset>>
              /\ frSplit' = (frSplit \/ (frBuffer' # <<>> /\ frInput' # <<>>))
    /\ UNCHANGED <<frPayloads, frFlushed, frDropped>>
    /\ UNCHANGED notFramer

\* _transform(chunk): append, overflow check, then the message loop
FramerTransform ==
    /\ ~frFlushed
    /\ \E n \in 1..Len(frInput) :
          LET chunk == SubSeq(frInput, 1, n)
              appended == frBuffer \o chunk
          IN  /\ frInput' = SubSeq(frInput, n + 1, Len(frInput))
              /\ IF Len(appended) > MAX_BUFFER_SIZE
                 THEN /\ frBuffer' = <<>>
                      /\ frOverflow' = TRUE
                      /\ frReset' = [emitted |-> Len(frEmitted), input |-> frInput']
                      /\ UNCHANGED frEmitted
                 ELSE LET r == ProcessMessages(appended, frEmitted)
                      IN  /\ frBuffer' = r[1]
                          /\ frEmitted' = r[2]
                          /\ UNCHANGED <<frOverflow, frReset>>
              /\ frSplit' = (frSplit \/ (frBuffer' # <<>> /\ frInput' # <<>>))
    /\ UNCHANGED <<frPayloads, frFlushed, frDropped>>
    /\ UNCHANGED notFramer

FramerFlushPushesRest ==
    /\ ~frFlushed
    /\ frInput = <<>>
    /\ frFlushed' = TRUE
    /\ frDropped' = <<>>
    /\ frBuffer' = <<>>
    /\ frEmitted' = IF frBuffer = <<>> THEN frEmitted ELSE Append(frEmitted, frBuffer)
    /\ UNCHANGED <<frInput, frPayloads, frOverflow, frSplit, frReset>>
    /\ UNCHANGED notFramer

\* _flush: the incomplete rest of the buffer is discarded, nothing is pushed
FramerFlush ==
    /\ ~frFlushed
    /\ frInput = <<>>
    /\ frFlushed' = TRUE
    /\ frDropped' = frBuffer
    /\ frBuffer' = <<>>
    /\ UNCHANGED <<frEmitted, frInput, frPayloads, frOverflow, frSplit, frReset>>
    /\ UNCHANGED notFramer

\* A well-formed payload: any bytes, then EOT and the two checksum bytes.
Payloads ==
    {body \o <<EOT, c0, c1>> :
        body \in SeqsUpTo(Byte, MaxStream - 4), c0 \in Byte, c1 \in Byte}

\* Sequences of well-formed payloads whose frames fit in MaxStream bytes.
PayloadSeqs ==
    LET one == {<<p>> : p \in Payloads}
        two == {<<p, q>> : p \in {x \in Payloads : Len(x) + 1 <= MaxStream - 4},
                           q \in {x \in Payloads : Len(x) + 1 <= MaxStream - 4}}
    IN  {<<>>} \cup one \cup {s \in two : Len(s[1]) + Len(s[2]) + 2 <= MaxStream}

FramesOf(ps) == Flatten([i \in 1..Len(ps) |-> frameMessage(ps[i])])

FramerIdle ==
    /\ frBuffer = <<>>
    /\ frEmitted = <<>>
    /\ frInput = <<>>
    /\ frPayloads = <<>>
    /\ frOverflow = FALSE
    /\ frFlushed = TRUE
    /\ frSplit = FALSE
    /\ frReset = NoReset
    /\ frDropped = <<>>

FramerInit ==
    /\ frPayloads \in PayloadSeqs
    /\ frInput = FramesOf(frPayloads)
    /\ frBuffer = <<>>
    /\ frEmitted = <<>>
    /\ frOverflow = FALSE
    /\ frFlushed = FALSE
    /\ frSplit = FALSE
    /\ frReset = NoReset
    /\ frDropped = <<>>

\* Bytes that hold no newline, so no message end: runs of ordinary bytes up
\* to one more than MAX_BUFFER_SIZE, and short mixes of ordinary bytes and EOT.
Junk ==
    {[i \in 1..n |-> PLAIN] : n \in 0..(MAX_BUFFER_SIZE + 1)} \cup SeqsUpTo({PLAIN, EOT}, 2)

\* Short well-formed payloads, a checksum byte being any byte value.
ShortPayloads ==
    {body \o <<EOT, c0, c1>> :
        body \in {<<>>, <<PLAIN>>}, c0 \in {PLAIN, EOT}, c1 \in {PLAIN, NEWLINE}}

\* The start of a frame whose end never arrives.
Tails == {<<>>, <<PLAIN>>, <<PLAIN, EOT, PLAIN>>}

\* A serial stream as the port delivers it: bytes without a message end,
\* then up to two well-formed frames, then possibly the start of one more.
StreamInit ==
    /\ frPayloads \in SeqsUpTo(ShortPayloads, 2)
    /\ \E junk \in Junk, tail \in Tails : frInput = junk \o FramesOf(frPayloads) \o tail
    /\ frBuffer = <<>>
    /\ frEmitted = <<>>
    /\ frOverflow = FALSE
    /\ frFlushed = FALSE
    /\ frSplit = FALSE
    /\ frReset = NoReset
    /\ frDropped = <<>>

FramerNext == FramerTransform \/ FramerFlush

(***************************************************************************)
(* matchesFilter (src/src/device/device.ts, the waiter part)               *)
(***************************************************************************)
\* JavaScript values: numbers, strings (sequences of characters), undefined
\* (what reading a missing property yields) and null.
Num(n) == [t |-> "number", v |-> n]
Str(s) == [t |-> "string", v |-> s]
Undefined == [t |-> "undefined", v |-> 0]
Null == [t |-> "null", v |-> 0]

\* the longest string the model varies in a message
MaxStrLen == 2
Chars == {"0", "1", "3", "-", " ", "a"}
DigitValue ==
    ("0" :> 0) @@ ("1" :> 1) @@ ("2" :> 2) @@ ("3" :> 3) @@ ("4" :> 4) @@
    ("5" :> 5) @@ ("6" :> 6) @@ ("7" :> 7) @@ ("8" :> 8) @@ ("9" :> 9)

RECURSIVE TrimStart(_)
TrimStart(s) == IF s # <<>> /\ Head(s) = " " THEN TrimStart(Tail(s)) ELSE s
RECURSIVE TrimEnd(_)
TrimEnd(s) ==
    IF s # <<>> /\ s[Len(s)] = " " THEN TrimEnd(SubSeq(s, 1, Len(s) - 1)) ELSE s
Trim(s) == TrimEnd(TrimStart(s))

RECURSIVE DecimalValue(_)
DecimalValue(ds) ==
    IF ds = <<>> THEN 0
    ELSE 10 * DecimalValue(SubSeq(ds, 1, Len(ds) - 1)) + DigitValue[ds[Len(ds)]]

\* Number(string): white space is stripped; the empty string is 0; an
\* optionally signed run of decimal digits is its value; anything else is NaN
\* (finite = FALSE).
StringToNumber(s) ==
    LET t == Trim(s)
        neg == t # <<>> /\ Head(t) = "-"
        ds == IF neg THEN Tail(t) ELSE t
    IN  IF t = <<>> THEN [finite |-> TRUE, v |-> 0]
        ELSE IF ds # <<>> /\ \A i \in 1..Len(ds) : ds[i] \in DOMAIN DigitValue
        THEN [finite |-> TRUE, v |-> IF neg THEN 0 - DecimalValue(ds) ELSE DecimalValue(ds)]
        ELSE [finite |-> FALSE, v |-> 0]

\* valuesEqual(left, right) of matchesFilter
valuesEqual(left, right) ==
    IF left = right THEN TRUE
    ELSE IF left.t = "number" /\ right.t = "string"
    THEN LET parsed == StringToNumber(right.v)
         IN  parsed.finite /\ left.v = parsed.v
    ELSE IF left.t = "string" /\ right.t = "number"
    THEN LET parsed == StringToNumber(left.v)
         IN  parsed.finite /\ parsed.v = right.v
    ELSE FALSE

BrcKeys == {"SX", "SY"}
ClassKeys == {"PAGENUMBER", "ELEMENTNUMBER", "EVENTTYPE"}

\* matchesFilter(message, filter).  A message is [brc, class_name,
\* class_instr, cls] with brc and cls total (Undefined for a missing key); a
\* filter has brc and cls defined on the keys it gives, and "" for an absent
\* class_name or class_instr.
matchesFilter(message, filter) ==
    /\ \A key \in DOMAIN filter.brc :
          valuesEqual(message.brc[key], filter.brc[key])
    /\ ~(filter.class_name # "" /\ message.class_name # filter.class_name)
    /\ ~(filter.class_instr # "" /\ message.class_instr # filter.class_instr)
    /\ \A key \in DOMAIN filter.cls :
          filter.cls[key] # Null
              => valuesEqual(message.cls[key], filter.cls[key])

\* The message and the filter of the test "matches numeric filters against
\* numeric strings".
TestMessage ==
    [brc |-> [SX |-> Str(<<"0">>), SY |-> Str(<<"-", "1">>)],
     class_name |-> "CONFIG", class_instr |-> "REPORT",
     cls |-> [PAGENUMBER |-> Str(<<"0">>), ELEMENTNUMBER |-> Str(<<"1">>),
              EVENTTYPE |-> Str(<<"3">>)]]
TestFilter ==
    [brc |-> [SX |-> Num(0), SY |-> Num(-1)],
     class_name |-> "CONFIG", class_instr |-> "REPORT",
     cls |-> [PAGENUMBER |-> Num(0), ELEMENTNUMBER |-> Num(1), EVENTTYPE |-> Num(3)]]

Restrict(f, S) == [k \in S |-> f[k]]

SetParam(rec, key, value) ==
    IF key \in BrcKeys
    THEN [rec EXCEPT !.brc = [k \in DOMAIN rec.brc \cup {key} |->
                                 IF k = key THEN value ELSE rec.brc[k]]]
    ELSE [rec EXCEPT !.cls = [k \in DOMAIN rec.cls \cup {key} |->
                                 IF k = key THEN value ELSE rec.cls[k]]]

DropParam(rec, key) ==
    IF key \in BrcKeys
    THEN [rec EXCEPT !.brc = Restrict(rec.brc, DOMAIN rec.brc \ {key})]
    ELSE [rec EXCEPT !.cls = Restrict(rec.cls, DOMAIN rec.cls \ {key})]

Numbers == {-1, 0, 1, 3}
MessageValues ==
    {Num(n) : n \in Numbers} \cup {Str(s) : s \in SeqsUpTo(Chars, MaxStrLen)}
        \cup {Undefined}
FilterValues ==
    {Num(n) : n \in Numbers}
        \cup {Str(<<"0">>), Str(<<"1">>), Str(<<"-", "1">>), Str(<<"3">>)} \cup {Null}

\* The inputs: the test's message and filter, each changed in one parameter,
\* with the class name of either side varied.
FilterInit ==
    /\ \E key \in BrcKeys \cup ClassKeys, value \in MessageValues,
          cn \in {"CONFIG", "HEARTBEAT"} :
          mfMessage = [SetParam(TestMessage, key, value) EXCEPT !.class_name = cn]
    /\ \E key \in BrcKeys \cup ClassKeys, cn \in {"CONFIG", ""} :
          \/ \E value \in FilterValues :
                mfFilter = [SetParam(TestFilter, key, value) EXCEPT !.class_name = cn]
          \/ mfFilter = [DropParam(TestFilter, key) EXCEPT !.class_name = cn]
    /\ mfResult = "none"

FilterIdle ==
    /\ mfMessage = TestMessage
    /\ mfFilter = TestFilter
    /\ mfResult = "idle"

MatchesFilterCall ==
    /\ mfResult = "none"
    /\ mfResult' = IF matchesFilter(mfMessage, mfFilter) THEN "match" ELSE "nomatch"
    /\ UNCHANGED <<mfMessage, mfFilter>>
    /\ UNCHANGED notFilter

FilterNext == MatchesFilterCall

(***************************************************************************)
(* Page selection and the transfer loops: pullCommand / fetchModuleConfig  *)
(* and pushCommand / sendModuleConfig, for the one module on the device.   *)
(* fetchEventConfig and the per-page send are taken here by their outcome; *)
(* the Device specification models them message by message.                *)
(***************************************************************************)
NUM_PAGES == 4

\* the largest page number a page list names (one past the device's pages)
MaxPageArg == 4

\* fallback tables of device/types.ts
ELEMENT_EVENTS ==
    [ button   |-> <<0, 3, 6, 5, 4>>,
      encoder  |-> <<0, 2, 3, 6, 5, 4>>,
      potmeter |-> <<0, 1, 6, 5, 4>>,
      fader    |-> <<0, 1, 6, 5, 4>>,
      system   |-> <<0, 6, 5, 4>> ]

MODULE_ELEMENTS ==
    [ PO16 |-> << [type |-> "potmeter", count |-> 16] >>,
      BU16 |-> << [type |-> "button", count |-> 16] >>,
      PBF4 |-> << [type |-> "fader", count |-> 4], [type |-> "button", count |-> 8] >>,
      EN16 |-> << [type |-> "encoder", count |-> 16] >>,
      EF44 |-> << [type |-> "encoder", count |-> 4], [type |-> "fader", count |-> 4] >>,
      TEK2 |-> << [type |-> "potmeter", count |-> 2] >>,
      KNOT |-> << [type |-> "system", count |-> 1] >> ]

\* the module types the device reports in the runs
ModuleTypesUsed == {"KNOT", "TEK2", "EF44", "Unknown(9)"}

RECURSIVE SumCounts(_)
SumCounts(elements) ==
    IF elements = <<>> THEN 0 ELSE Head(elements).count + SumCounts(Tail(elements))

\* getElementIndices: 0..total-1 of the table entry, 16 elements by default
getElementIndices(type) ==
    IF type \in DOMAIN MODULE_ELEMENTS
    THEN [i \in 1..SumCounts(MODULE_ELEMENTS[type]) |-> i - 1]
    ELSE [i \in 1..16 |-> i - 1]

RECURSIVE ElementTypeIn(_, _, _)
ElementTypeIn(elements, elementIndex, index) ==
    IF elements = <<>> THEN "button"
    ELSE IF elementIndex < index + Head(elements).count THEN Head(elements).type
    ELSE ElementTypeIn(Tail(elements), elementIndex, index + Head(elements).count)

getElementType(type, elementIndex) ==
    IF type \in DOMAIN MODULE_ELEMENTS
    THEN ElementTypeIn(MODULE_ELEMENTS[type], elementIndex, 0)
    ELSE "button"

getSupportedEvents(elementType) ==
    IF elementType \in DOMAIN ELEMENT_EVENTS
    THEN ELEMENT_EVENTS[elementType]
    ELSE ELEMENT_EVENTS.button

RECURSIVE SumEvents(_, _)
SumEvents(type, indices) ==
    IF indices = <<>> THEN 0
    ELSE Len(getSupportedEvents(getElementType(type, Head(indices))))
            + SumEvents(type, Tail(indices))

eventsPerPage(type) == SumEvents(type, getElementIndices(type))

Max(a, b) == IF a >= b THEN a ELSE b

\* Math.max(5, Math.floor(totalEvents * 0.1))
MaxFailuresOf(total) == Max(5, total \div 10)

\* an includePages / excludePages value: null or a Set of page numbers
NoPages == [given |-> FALSE, pages |-> {}]
PageSets == [given : {TRUE}, pages : SUBSET (0..MaxPageArg)]
PageOptions == {NoPages} \cup PageSets

PageSelectedIgnoringExclude(page, include, exclude) ==
    IF include.given THEN page \in include.pages ELSE TRUE

\* the filter callback shared by fetchModuleConfig and pushCommand
PageSelected(page, include, exclude) ==
    IF include.given THEN page \in include.pages
    ELSE IF exclude.given THEN page \notin exclude.pages
    ELSE TRUE

FilterPages(seq, include, exclude) ==
    SelectSeq(seq, LAMBDA page : PageSelected(page, include, exclude))

TooManyFailuresAtBound(failed, max) == failed >= max

\* if (failedCount > maxFailures) throw
TooManyFailures(failed, max) == failed > max

\* Array.from({ length: NUM_PAGES }, (_, i) => i)
AllPages == [i \in 1..NUM_PAGES |-> i - 1]

RECURSIVE Ascending(_)
Ascending(S) ==
    IF S = {} THEN <<>>
    ELSE LET m == CHOOSE x \in S : \A y \in S : x <= y
         IN <<m>> \o Ascending(S \ {m})

TransferInit ==
    /\ command = "none"
    /\ pc = "idle"
    /\ thrown = ""
    /\ moduleType = "KNOT"
    /\ includePages = NoPages
    /\ excludePages = NoPages
    /\ pageNumbers = <<>>
    /\ totalEvents = 0
    /\ maxFailures = 0
    /\ progressIndex = 0
    /\ failedCount = 0
    /\ pages = <<>>
    /\ configPages = <<>>

\* fetchModuleConfig has not been called: no page, no event, the loops at
\* their start
FetchStart == [element |-> 1, event |-> 1]
FetchIdle ==
    /\ fetchedPages = <<>>
    /\ fetchedEvents = <<>>
    /\ fetchAt = FetchStart

\* pullCommand for a module of the given type with the given page options,
\* up to the first fetchEventConfig of fetchModuleConfig
PullModule(type, include, exclude) ==
    /\ command' = "pull"
    /\ moduleType' = type
    /\ includePages' = include
    /\ excludePages' = exclude
    /\ IF include.given /\ exclude.given
       THEN /\ pc' = "error"
            /\ thrown' = "GridError"
            /\ UNCHANGED <<pageNumbers, totalEvents, maxFailures, progressIndex>>
       ELSE LET numbers == FilterPages(AllPages, include, exclude)
                total == eventsPerPage(type) * Len(numbers)
            IN /\ pageNumbers' = numbers
               /\ totalEvents' = total
               /\ maxFailures' = MaxFailuresOf(total)
               /\ progressIndex' = IF total > 0 THEN 1 ELSE 0
               /\ pc' = IF total > 0 THEN "fetching" ELSE "done"
               /\ thrown' = ""
    /\ UNCHANGED <<failedCount, pages, configPages>>

PullCommandCall ==
    /\ pc = "idle"
    /\ \E type \in ModuleTypesUsed, include \in PageOptions, exclude \in PageOptions :
          PullModule(type, include, exclude)
    /\ UNCHANGED notTransfer

\* fetchModuleConfig from the return of one fetchEventConfig, failed or
\* not, to the next call: the counters, the throw, the pages
FetchEventReturns(failed) ==
    /\ LET count == IF failed THEN failedCount + 1 ELSE failedCount
           perPage == eventsPerPage(moduleType)
           pageDone == progressIndex % perPage = 0
       IN /\ failedCount' = count
          /\ IF failed /\ TooManyFailures(count, maxFailures)
             THEN /\ pc' = "error"
                  /\ thrown' = "ProtocolError"
                  /\ UNCHANGED <<pages, progressIndex>>
             ELSE /\ pages' = IF pageDone
                              THEN Append(pages, pageNumbers[progressIndex \div perPage])
                              ELSE pages
                  /\ IF progressIndex = totalEvents
                     THEN pc' = "done" /\ UNCHANGED progressIndex
                     ELSE pc' = "fetching" /\ progressIndex' = progressIndex + 1
                  /\ UNCHANGED thrown
    /\ UNCHANGED <<command, moduleType, includePages, excludePages, pageNumbers,
                   totalEvents, maxFailures, configPages>>

FetchEventResult ==
    /\ pc = "fetching"
    /\ \E failed \in BOOLEAN : FetchEventReturns(failed)
    /\ UNCHANGED notTransfer

\* pushCommand up to the first sendModuleConfig page
PushCommandCall ==
    /\ pc = "idle"
    /\ \E type \in ModuleTypesUsed, include \in PageOptions, exclude \in PageOptions,
          onDisk \in SUBSET (0..MaxPageArg), dryRun \in BOOLEAN, matched \in BOOLEAN :
        /\ command' = "push"
        /\ moduleType' = type
        /\ includePages' = include
        /\ excludePages' = exclude
        /\ configPages' = Ascending(onDisk)
        /\ IF include.given /\ exclude.given
           THEN /\ pc' = "error"
                /\ thrown' = "GridError"
                /\ UNCHANGED pageNumbers
           ELSE /\ pageNumbers' = FilterPages(Ascending(onDisk), include, exclude)
                /\ IF dryRun
                   THEN pc' = "dryrun" /\ thrown' = ""
                   ELSE IF ~matched
                   THEN pc' = "error" /\ thrown' = "GridError"
                   ELSE /\ pc' = IF pageNumbers' = <<>> THEN "done" ELSE "pushing"
                        /\ thrown' = ""
    /\ UNCHANGED <<totalEvents, maxFailures, progressIndex, failedCount, pages>>
    /\ UNCHANGED notTransfer

\* sendModuleConfig: one page of the filtered config sent, or the send throws
SendModuleConfigPage ==
    /\ pc = "pushing"
    /\ \E sent \in BOOLEAN :
        IF sent
        THEN /\ pages' = Append(pages, pageNumbers[Len(pages) + 1])
             /\ pc' = IF Len(pages') = Len(pageNumbers) THEN "done" ELSE "pushing"
             /\ UNCHANGED thrown
        ELSE /\ pc' = "error"
             /\ thrown' = "ProtocolError"
             /\ UNCHANGED pages
    /\ UNCHANGED <<command, moduleType, includePages, excludePages, pageNumbers,
                   totalEvents, maxFailures, progressIndex, failedCount, configPages>>
    /\ UNCHANGED notTransfer

TransferNext ==
    \/ PullCommandCall
    \/ FetchEventResult
    \/ PushCommandCall
    \/ SendModuleConfigPage

(***************************************************************************)
(* SerialConnection: open, close, the port's close event, waitForMessage.  *)
(***************************************************************************)
\* waitForMessage calls made in a run
MaxConnWaiters == 3
\* close() calls made in a run
MaxCloseCalls == 2

ConnWaiterIds == 1..MaxConnWaiters

RemoveAll(seq, S) == SelectSeq(seq, LAMBDA x : x \notin S)

\* close()'s guard: nothing to do on a connection that is not open
CloseReturnsEarly == ~isOpen \/ port = "null"

\* write()'s guard: "Connection not open" is thrown and port.write is not
\* called; otherwise the framed bytes are handed to port.write
WriteRejected == ~isOpen \/ port = "null"

LinkInit ==
    /\ isOpen = FALSE
    /\ port = "null"
    /\ listening = FALSE
    /\ connWaiters = <<>>
    /\ connWaiterState = [w \in ConnWaiterIds |-> "unused"]
    /\ connDelivered = {}
    /\ closeCalls = 0

\* open(): a new SerialPort with its listeners, port.open() started
ConnOpen ==
    /\ ~isOpen
    /\ port \in {"null", "lost"}
    /\ port' = "opening"
    /\ listening' = TRUE
    /\ UNCHANGED <<isOpen, connWaiters, connWaiterState, connDelivered, closeCalls>>
    /\ UNCHANGED notLink

\* the callback of port.open()
ConnPortOpened ==
    /\ port = "opening"
    /\ \E ok \in BOOLEAN :
        IF ok
        THEN isOpen' = TRUE /\ port' = "open" /\ UNCHANGED listening
        ELSE isOpen' = isOpen /\ port' = "null" /\ listening' = FALSE
    /\ UNCHANGED <<connWaiters, connWaiterState, connDelivered, closeCalls>>
    /\ UNCHANGED notLink

\* portCloseHandler: the port reports that it has closed (device unplugged)
ConnPortCloseEvent ==
    /\ port = "open"
    /\ listening
    /\ isOpen' = FALSE
    /\ port' = "lost"
    /\ UNCHANGED <<listening, connWaiters, connWaiterState, connDelivered, closeCalls>>
    /\ UNCHANGED notLink

\* waitForMessage(predicate, timeoutMs): a waiter is registered
ConnWaitForMessage ==
    /\ \E w \in ConnWaiterIds :
        /\ connWaiterState[w] = "unused"
        /\ \A v \in ConnWaiterIds : v < w => connWaiterState[v] # "unused"
        /\ connWaiters' = Append(connWaiters, w)
        /\ connWaiterState' = [connWaiterState EXCEPT ![w] = "pending"]
    /\ UNCHANGED <<isOpen, port, listening, connDelivered, closeCalls>>
    /\ UNCHANGED notLink

\* framerDataHandler: a payload is emitted as "message"; the handlers whose
\* predicate accepts it resolve and clean up
ConnMessage ==
    /\ port = "open"
    /\ listening
    /\ \E accepted \in SUBSET Range(connWaiters) :
        /\ connWaiters' = RemoveAll(connWaiters, accepted)
        /\ connWaiterState' = [w \in ConnWaiterIds |->
                                  IF w \in accepted THEN "resolved" ELSE connWaiterState[w]]
        /\ connDelivered' = accepted
    /\ UNCHANGED <<isOpen, port, listening, closeCalls>>
    /\ UNCHANGED notLink

\* the timer of a waitForMessage waiter fires
ConnWaiterTimeout ==
    /\ \E w \in Range(connWaiters) :
        /\ connWaiters' = RemoveAll(connWaiters, {w})
        /\ connWaiterState' = [connWaiterState EXCEPT ![w] = "timeout"]
    /\ UNCHANGED <<isOpen, port, listening, connDelivered, closeCalls>>
    /\ UNCHANGED notLink

\* SerialConnection.close() up to port.close()
ConnectionClose ==
    /\ closeCalls < MaxCloseCalls
    /\ closeCalls' = closeCalls + 1
    /\ UNCHANGED connDelivered
    /\ IF CloseReturnsEarly
       THEN UNCHANGED <<isOpen, port, listening, connWaiters, connWaiterState>>
       ELSE /\ connWaiters' = <<>>
            /\ connWaiterState' = [w \in ConnWaiterIds |->
                                      IF w \in Range(connWaiters) THEN "cancelled"
                                      ELSE connWaiterState[w]]
            /\ listening' = FALSE
            /\ port' = "closing"
            /\ UNCHANGED isOpen

\* close() called on the connection
ConnClose == ConnectionClose /\ UNCHANGED notLink

\* the callback of port.close(): without an error the connection is reset
\* and the promise resolved, with one the promise is rejected
PortClosed(ok) ==
    /\ port = "closing"
    /\ IF ok
       THEN isOpen' = FALSE /\ port' = "null"
       ELSE isOpen' = isOpen /\ port' = "open"
    /\ UNCHANGED <<listening, connWaiters, connWaiterState, connDelivered, closeCalls>>

ConnPortClosed == (\E ok \in BOOLEAN : PortClosed(ok)) /\ UNCHANGED notLink

LinkNext ==
    \/ ConnOpen
    \/ ConnPortOpened
    \/ ConnPortCloseEvent
    \/ ConnWaitForMessage
    \/ ConnMessage
    \/ ConnWaiterTimeout
    \/ ConnClose
    \/ ConnPortClosed

(***************************************************************************)
(* GridDevice: the request/response correlator (sendAndWait, the           *)
(* ResponseWaiter, handleMessage, close) and the operations built on it    *)
(* (fetchEventConfig, sendModuleConfig, changePage, storeToFlash).         *)
(* Each task is one call of a public operation; a task runs from one await *)
(* to the next in one step.  ready is the queue of continuations of        *)
(* settled promises: it is emptied before any timer, I/O callback or new   *)
(* call runs.                                                              *)
(***************************************************************************)
\* concurrent calls of public operations
MaxTasks == 2
Tasks == 1..MaxTasks

\* ---- script text: a string is a sequence of pieces ----
SCRIPT_START == "<?lua "
SCRIPT_END == " ?>"

\* the largest script parseDeviceFormat accepts, in pieces
MAX_SCRIPT_SIZE == 5

\* the action headers --[[@short#name]] the texts use (name "" = none)
Headers ==
    ("--[[@a]]" :> [short |-> "a", name |-> ""]) @@
    ("--[[@b#n]]" :> [short |-> "b", name |-> "n"])

wrapScript(script) == <<SCRIPT_START>> \o script \o <<SCRIPT_END>>

unwrapScript(wrapped) ==
    IF Len(wrapped) >= 2 /\ Head(wrapped) = SCRIPT_START /\ wrapped[Len(wrapped)] = SCRIPT_END
    THEN SubSeq(wrapped, 2, Len(wrapped) - 1)
    ELSE wrapped

\* replace(/\s{2,}/g, " ")
RECURSIVE CollapseSpaces(_)
CollapseSpaces(s) ==
    IF Len(s) < 2 THEN s
    ELSE IF s[1] = " " /\ s[2] = " " THEN CollapseSpaces(Tail(s))
    ELSE <<Head(s)>> \o CollapseSpaces(Tail(s))

\* the pieces before the next action header
RECURSIVE CodeUpToHeader(_)
CodeUpToHeader(s) ==
    IF s = <<>> \/ Head(s) \in DOMAIN Headers THEN <<>>
    ELSE <<Head(s)>> \o CodeUpToHeader(Tail(s))

\* the matches of /--\[\[@([^\]]*)\]\]\s*(.*?)(?=(--\[\[@|$))/gs
RECURSIVE MatchActions(_)
MatchActions(s) ==
    IF s = <<>> THEN <<>>
    ELSE IF Head(s) \in DOMAIN Headers
    THEN LET code == CodeUpToHeader(Tail(s))
         IN  <<[short |-> Headers[Head(s)].short,
                name |-> Headers[Head(s)].name,
                code |-> Trim(code)]>>
                \o MatchActions(SubSeq(s, Len(code) + 2, Len(s)))
    ELSE MatchActions(Tail(s))

\* parseDeviceFormat(script): the actions, or threw = TRUE (script too large)
parseDeviceFormat(script) ==
    IF script = <<>> \/ Trim(script) = <<>>
    THEN [threw |-> FALSE, actions |-> <<>>]
    ELSE IF Len(script) > MAX_SCRIPT_SIZE
    THEN [threw |-> TRUE, actions |-> <<>>]
    ELSE [threw |-> FALSE, actions |-> MatchActions(CollapseSpaces(script))]

\* ---- messages ----
MsgKeys == ClassKeys \cup {"ACTIONSTRING", "TEXT", "HWCFG", "VMAJOR", "VMINOR", "VPATCH"}

NoParams == [k \in {} |-> Null]

\* a DecodedMessage; a key the message lacks reads as undefined
Message(sx, sy, class_name, class_instr, params) ==
    [brc |-> [SX |-> sx, SY |-> sy],
     class_name |-> class_name, class_instr |-> class_instr,
     cls |-> [k \in MsgKeys |-> IF k \in DOMAIN params THEN params[k] ELSE Undefined]]

NoMessage == Message(Undefined, Undefined, "", "", NoParams)

\* JavaScript truthiness of a value
Truthy(value) ==
    CASE value.t = "number" -> value.v # 0
      [] value.t = "string" -> value.v # <<>>
      [] OTHER -> FALSE

\* ---- requests: descriptor, response filter, retries ----
Request(class_name, class_instr, dx, dy, page, filter, retries) ==
    [class_name |-> class_name, class_instr |-> class_instr, dx |-> dx, dy |-> dy,
     page |-> page, filter |-> filter, retries |-> retries]

NoRequest ==
    Request("", "", 0, 0, -1,
            [brc |-> NoParams, class_name |-> "", class_instr |-> "", cls |-> NoParams], 0)

\* createFetchConfig and the sendAndWait arguments of fetchEventConfig
createFetchConfig(dx, dy, page, element, eventType) ==
    Request("CONFIG", "FETCH", dx, dy, page,
            [brc |-> [SX |-> Num(dx), SY |-> Num(dy)],
             class_name |-> "CONFIG", class_instr |-> "REPORT",
             cls |-> [PAGENUMBER |-> Num(page), ELEMENTNUMBER |-> Num(element),
                      EVENTTYPE |-> Num(eventType)]],
            1)

createSendConfigOneRetry(dx, dy, page, element, eventType) ==
    Request("CONFIG", "EXECUTE", dx, dy, page,
            [brc |-> [SX |-> Num(dx), SY |-> Num(dy)],
             class_name |-> "CONFIG", class_instr |-> "ACKNOWLEDGE",
             cls |-> NoParams],
            1)

\* createSendConfig and the sendAndWait arguments of sendEventConfig
createSendConfig(dx, dy, page, element, eventType) ==
    Request("CONFIG", "EXECUTE", dx, dy, page,
            [brc |-> [SX |-> Num(dx), SY |-> Num(dy)],
             class_name |-> "CONFIG", class_instr |-> "ACKNOWLEDGE",
             cls |-> NoParams],
            2)

\* createStorePage and the sendAndWait arguments of storeToFlash
createStorePage ==
    Request("PAGESTORE", "EXECUTE", -127, -127, -1,
            [brc |-> NoParams,
             class_name |-> "PAGESTORE", class_instr |-> "ACKNOWLEDGE",
             cls |-> [LASTHEADER |-> Null]],
            1)

\* createNVMErase and the sendAndWait arguments of eraseNvm
createNVMErase ==
    Request("NVMERASE", "EXECUTE", -127, -127, -1,
            [brc |-> NoParams,
             class_name |-> "NVMERASE", class_instr |-> "ACKNOWLEDGE",
             cls |-> [LASTHEADER |-> Null]],
            0)

\* createChangePage(page) as changePage calls it, with two more arguments
\* the function does not take: the descriptor is addressed to (-127, -127);
\* with the filter and the sendAndWait arguments of changePage
createChangePage(page, dx, dy) ==
    Request("PAGEACTIVE", "EXECUTE", -127, -127, page,
            [brc |-> NoParams,
             class_name |-> "PAGEACTIVE", class_instr |-> "REPORT",
             cls |-> [PAGENUMBER |-> Num(page)]],
            0)

\* ---- tasks ----
FreshWaiter == [settled |-> "no", message |-> NoMessage]
NoWaiter == [settled |-> "none", message |-> NoMessage]
NoResult == [actions |-> <<>>, failed |-> FALSE]

IdleTask ==
    [op |-> "none", pc |-> "idle", req |-> NoRequest, attempt |-> 0, timedOut |-> 0,
     writes |-> 0,
     waiter |-> NoWaiter, config |-> <<>>, pageIdx |-> 0, eventIdx |-> 0,
     activePage |-> -1, round |-> 0, attemptIdx |-> 0, pageReport |-> NoMessage,
     outcome |-> "none", error |-> "", result |-> NoResult]

\* the module the operations address
ModuleDx == 0
ModuleDy == 0

\* the pages fetchEventConfig is called for
FetchPages == {0, 1}

Event(elementIndex, eventType, tooLarge) ==
    [elementIndex |-> elementIndex, eventType |-> eventType, tooLarge |-> tooLarge]
Page(pageNumber, events) == [pageNumber |-> pageNumber, events |-> events]

\* the configurations sendModuleConfig is called with
Configs ==
    { <<Page(0, <<Event(0, 0, FALSE)>>)>>,
      <<Page(1, <<Event(0, 0, FALSE)>>)>>,
      <<Page(0, <<Event(0, 0, FALSE)>>), Page(1, <<Event(0, 3, FALSE)>>)>>,
      <<Page(1, <<>>), Page(1, <<Event(0, 0, TRUE)>>)>> }

\* a step of a task: its new record, whether a new waiter is registered,
\* and pageChangeDisabled after it
Step(tk, push, latch) == [tk |-> tk, push |-> push, latch |-> latch]

\* the call returns or throws; its locals are gone, the waiter that ended
\* a fetch and its count of timeouts are kept for the record
Finish(tk, outcome, error, result, latch) ==
    Step([IdleTask EXCEPT !.op = tk.op, !.pc = "done", !.outcome = outcome,
                          !.error = error, !.result = result,
                          !.waiter = IF tk.op = "fetch" THEN tk.waiter ELSE NoWaiter,
                          !.timedOut = IF tk.op = "fetch" THEN tk.timedOut ELSE 0],
         FALSE, latch)

BeginUnregistered(tk, req, latch) ==
    Step([tk EXCEPT !.pc = "write", !.req = req, !.attempt = 0, !.timedOut = 0,
                    !.writes = 1, !.waiter = FreshWaiter], FALSE, latch)

\* sendAndWait up to connection.write: a new waiter, started, in pendingWaiters
Begin(tk, req, latch) ==
    Step([tk EXCEPT !.pc = "write", !.req = req, !.attempt = 0, !.timedOut = 0,
                    !.writes = 1, !.waiter = FreshWaiter], TRUE, latch)

CurrentPage(tk) == tk.config[tk.pageIdx]

\* changePage: attempt idx of a round (1 = broadcast, 2 = the module)
BeginAttempt(tk, round, idx, latch) ==
    Begin([tk EXCEPT !.round = round, !.attemptIdx = idx],
          IF idx = 1
          THEN createChangePage(CurrentPage(tk).pageNumber, -127, -127)
          ELSE createChangePage(CurrentPage(tk).pageNumber, ModuleDx, ModuleDy),
          latch)

changePageWithoutStore(tk, latch) ==
    BeginAttempt([tk EXCEPT !.pageReport = NoMessage], 0, 1, latch)

\* changePage up to its first sendAndWait
changePage(tk, latch) ==
    IF latch /\ CurrentPage(tk).pageNumber > 0
    THEN Begin([tk EXCEPT !.pageReport = NoMessage], createStorePage, latch)
    ELSE BeginAttempt([tk EXCEPT !.pageReport = NoMessage], 0, 1, latch)

ChangeFailureNeverFatal(changed, pageNumber) == FALSE

\* if (!changed && page.pageNumber > 0) throw
ChangeFailureIsFatal(changed, pageNumber) == ~changed /\ pageNumber > 0

\* sendModuleConfig: the event loop of the current page, and the page loop
RECURSIVE sendEvents(_, _), sendPages(_, _)
sendEvents(tk, latch) ==
    IF tk.eventIdx < Len(CurrentPage(tk).events)
    THEN LET event == CurrentPage(tk).events[tk.eventIdx + 1]
             next == [tk EXCEPT !.eventIdx = tk.eventIdx + 1]
         IN  IF event.tooLarge
             THEN Finish(next, "thrown", "ProtocolError", NoResult, latch)
             ELSE Begin(next,
                        createSendConfig(ModuleDx, ModuleDy, CurrentPage(tk).pageNumber,
                                         event.elementIndex, event.eventType),
                        latch)
    ELSE sendPages([tk EXCEPT !.pageIdx = tk.pageIdx + 1, !.eventIdx = 0], latch)
sendPages(tk, latch) ==
    IF tk.pageIdx > Len(tk.config)
    THEN Finish(tk, "returned", "", NoResult, latch)
    ELSE IF tk.activePage # CurrentPage(tk).pageNumber
    THEN changePage(tk, latch)
    ELSE sendEvents(tk, latch)

\* sendModuleConfig after changePage returned
afterChangePage(tk, changed, latch) ==
    IF ChangeFailureIsFatal(changed, CurrentPage(tk).pageNumber)
    THEN Finish(tk, "thrown", "ProtocolError", NoResult, latch)
    ELSE sendEvents([tk EXCEPT !.activePage = CurrentPage(tk).pageNumber], latch)

\* changePage after an attempt was not confirmed
nextAttempt(tk, latch) ==
    IF tk.attemptIdx < 2 THEN BeginAttempt(tk, tk.round, tk.attemptIdx + 1, latch)
    ELSE IF tk.round < 1 THEN BeginAttempt(tk, tk.round + 1, 1, latch)
    ELSE afterChangePage(tk, FALSE, latch)

\* fetchEventConfig after sendAndWait returned the response
fetchEventConfigResult(response) ==
    LET actionString == response.cls["ACTIONSTRING"]
        parsed == parseDeviceFormat(unwrapScript(actionString.v))
    IN  IF ~Truthy(actionString) THEN [actions |-> <<>>, failed |-> FALSE]
        ELSE IF actionString.t # "string" THEN [actions |-> <<>>, failed |-> TRUE]
        ELSE IF parsed.threw THEN [actions |-> <<>>, failed |-> TRUE]
        ELSE [actions |-> parsed.actions, failed |-> FALSE]

\* parseDeviceFormat throws on the ACTIONSTRING of the response
ParseThrows(response) ==
    LET actionString == response.cls["ACTIONSTRING"]
    IN  /\ Truthy(actionString)
        /\ actionString.t = "string"
        /\ parseDeviceFormat(unwrapScript(actionString.v)).threw

afterSendAndWaitGoesOn(tk, ok, message, error, latch) ==
    CASE tk.req.class_name = "CONFIG" /\ tk.req.class_instr = "FETCH" ->
            IF ok
            THEN Finish(tk, "returned",
                        IF ParseThrows(message) THEN "ValidationError" ELSE "",
                        fetchEventConfigResult(message), latch)
            ELSE Finish(tk, "returned", error, [actions |-> <<>>, failed |-> TRUE], latch)
      [] tk.req.class_name = "PAGESTORE" ->
            IF tk.op = "store"
            THEN IF ok THEN Finish(tk, "returned", "", NoResult, latch)
                 ELSE Finish(tk, "thrown", "ProtocolError", NoResult, latch)
            ELSE BeginAttempt(tk, 0, 1, IF ok THEN FALSE ELSE latch)
      [] tk.req.class_name = "NVMERASE" ->
            IF ok THEN Finish(tk, "returned", "", NoResult, latch)
            ELSE Finish(tk, "thrown", "ProtocolError", NoResult, latch)
      [] tk.req.class_name = "PAGEACTIVE" ->
            IF ok THEN afterChangePage([tk EXCEPT !.pageReport = message], TRUE, latch)
            ELSE nextAttempt(tk, latch)
      [] OTHER ->
            Step([tk EXCEPT !.pc = "pause"], FALSE, latch)

\* the caller of sendAndWait after it returned message (ok) or threw error
afterSendAndWait(tk, ok, message, error, latch) ==
    CASE tk.req.class_name = "CONFIG" /\ tk.req.class_instr = "FETCH" ->
            IF ok
            THEN Finish(tk, "returned",
                        IF ParseThrows(message) THEN "ValidationError" ELSE "",
                        fetchEventConfigResult(message), latch)
            ELSE Finish(tk, "returned", error, [actions |-> <<>>, failed |-> TRUE], latch)
      [] tk.req.class_name = "PAGESTORE" ->
            IF tk.op = "store"
            THEN IF ok THEN Finish(tk, "returned", "", NoResult, latch)
                 ELSE Finish(tk, "thrown", "ProtocolError", NoResult, latch)
            ELSE BeginAttempt(tk, 0, 1, IF ok THEN FALSE ELSE latch)
      [] tk.req.class_name = "NVMERASE" ->
            IF ok THEN Finish(tk, "returned", "", NoResult, latch)
            ELSE Finish(tk, "thrown", "ProtocolError", NoResult, latch)
      [] tk.req.class_name = "PAGEACTIVE" ->
            IF ok THEN afterChangePage([tk EXCEPT !.pageReport = message], TRUE, latch)
            ELSE nextAttempt(tk, latch)
      [] OTHER ->
            IF ok THEN Step([tk EXCEPT !.pc = "pause"], FALSE, latch)
            ELSE Finish(tk, "thrown", "ProtocolError", NoResult, latch)

ShouldRetryNever(error, attempt, retries) == FALSE

\* error.name === "TimeoutError" && attempt < retries
ShouldRetry(error, attempt, retries) == error = "TimeoutError" /\ attempt < retries

\* ---- pendingWaiters ----
\* an entry of pendingWaiters: the waiter a task created for an attempt
Entry(t, attempt) == [task |-> t, attempt |-> attempt]

RECURSIVE RemoveFirst(_, _)
RemoveFirst(seq, x) ==
    IF seq = <<>> THEN <<>>
    ELSE IF Head(seq) = x THEN Tail(seq)
    ELSE <<Head(seq)>> \o RemoveFirst(Tail(seq), x)

\* the waiter of an entry has not settled
Unsettled(tasks, entry) ==
    /\ tasks[entry.task].pc \in {"write", "wait"}
    /\ tasks[entry.task].attempt = entry.attempt
    /\ tasks[entry.task].waiter.settled = "no"

tryMatchWhenSettled(tasks, entry, message) ==
    /\ tasks[entry.task].pc \in {"write", "wait"}
    /\ tasks[entry.task].attempt = entry.attempt
    /\ matchesFilter(message, tasks[entry.task].req.filter)

\* ResponseWaiter.tryMatch
tryMatch(tasks, entry, message) ==
    /\ Unsettled(tasks, entry)
    /\ matchesFilter(message, tasks[entry.task].req.filter)

NewestMatchingWaiter(tasks, pending, message) ==
    LET all == {i \in 1..Len(pending) : tryMatch(tasks, pending[i], message)}
    IN  {i \in all : \A j \in all : j <= i}

\* the indices of pendingWaiters the loop of handleMessage resolves
MatchingWaiters(tasks, pending, message) ==
    {i \in 1..Len(pending) : tryMatch(tasks, pending[i], message)}

\* the elements of a set of numbers, largest first
RECURSIVE Descending(_)
Descending(S) ==
    IF S = {} THEN <<>>
    ELSE LET m == CHOOSE x \in S : \A y \in S : y <= x
         IN  <<m>> \o Descending(S \ {m})

\* ---- the module inventory ----
MODULE_TYPES ==
    (0 :> "PO16") @@ (1 :> "BU16") @@ (2 :> "PBF4") @@ (3 :> "EN16") @@
    (4 :> "EF44") @@ (5 :> "TEK2") @@ (127 :> "KNOT")

\* parseNumber(value): ok = FALSE stands for null
parseNumber(value) ==
    CASE value.t = "number" -> [ok |-> TRUE, v |-> value.v]
      [] value.t = "string" ->
            IF Trim(value.v) = <<>> THEN [ok |-> FALSE, v |-> 0]
            ELSE [ok |-> StringToNumber(Trim(value.v)).finite,
                  v |-> StringToNumber(Trim(value.v)).v]
      [] OTHER -> [ok |-> FALSE, v |-> 0]

\* Map.set(key, moduleInfo): replace in place or append
MapSet(map, info) ==
    IF \E i \in 1..Len(map) : map[i].dx = info.dx /\ map[i].dy = info.dy
    THEN [i \in 1..Len(map) |->
             IF map[i].dx = info.dx /\ map[i].dy = info.dy THEN info ELSE map[i]]
    ELSE Append(map, info)

\* vmajor ?? 0
OrZero(parsed) == IF parsed.ok THEN parsed.v ELSE 0

\* firmware of the moduleInfo literal
Firmware(message) ==
    [major |-> OrZero(parseNumber(message.cls["VMAJOR"])),
     minor |-> OrZero(parseNumber(message.cls["VMINOR"])),
     patch |-> OrZero(parseNumber(message.cls["VPATCH"]))]

\* getModuleTypeFromHwcfg(hwcfg) || MODULE_TYPES[hwcfg & 0x7f] || "Unknown(..)"
\* with the protocol library not initialized, as in tests/discovery.test.ts
TypeName(hwcfg) ==
    IF (hwcfg % 128) \in DOMAIN MODULE_TYPES THEN MODULE_TYPES[hwcfg % 128] ELSE "Unknown"

handleHeartbeatKeepsFirst(map, message) ==
    LET sx == parseNumber(message.brc["SX"])
        sy == parseNumber(message.brc["SY"])
        hwcfg == parseNumber(message.cls["HWCFG"])
    IN  IF ~sx.ok \/ ~sy.ok \/ ~hwcfg.ok THEN map
        ELSE IF \E i \in 1..Len(map) : map[i].dx = sx.v /\ map[i].dy = sy.v THEN map
        ELSE MapSet(map, [dx |-> sx.v, dy |-> sy.v, typeId |-> hwcfg.v,
                          type |-> TypeName(hwcfg.v), firmware |-> Firmware(message)])

\* handleHeartbeat: the moduleInfo without elementCount, which is a function
\* of the type name
handleHeartbeat(map, message) ==
    LET sx == parseNumber(message.brc["SX"])
        sy == parseNumber(message.brc["SY"])
        hwcfg == parseNumber(message.cls["HWCFG"])
    IN  IF ~sx.ok \/ ~sy.ok \/ ~hwcfg.ok THEN map
        ELSE MapSet(map, [dx |-> sx.v, dy |-> sy.v, typeId |-> hwcfg.v,
                          type |-> TypeName(hwcfg.v), firmware |-> Firmware(message)])

\* text.toLowerCase().includes("page change is disabled")
SaysPageChangeDisabled(text) ==
    /\ text.t = "string"
    /\ \E i \in 1..Len(text.v) : text.v[i] = "page change is disabled"

\* ---- handleMessage ----
DeviceState(tasks, pending, latch, map, queue) ==
    [task |-> tasks, pending |-> pending, latch |-> latch, modules |-> map, ready |-> queue]

\* the body of handleMessage's loop for one decoded message: the latch, the
\* inventory, then the waiters from the newest to the oldest
HandleOne(st, message) ==
    LET map == IF message.class_name = "HEARTBEAT"
               THEN handleHeartbeat(st.modules, message) ELSE st.modules
        matched == MatchingWaiters(st.task, st.pending, message)
        owners == {st.pending[i].task : i \in matched}
        order == Descending(matched)
    IN  DeviceState(
            [t \in Tasks |->
                IF t \in owners
                THEN [st.task[t] EXCEPT !.waiter = [settled |-> "resolved",
                                                    message |-> message]]
                ELSE st.task[t]],
            SelectSeq(st.pending, LAMBDA e : e.task \notin owners),
            st.latch \/ (message.class_name = "DEBUGTEXT"
                            /\ SaysPageChangeDisabled(message.cls["TEXT"])),
            map,
            st.ready \o SelectSeq([k \in 1..Len(order) |-> st.pending[order[k]].task],
                                  LAMBDA t : st.task[t].pc = "wait"))

RECURSIVE handleMessage(_, _)
handleMessage(st, messages) ==
    IF messages = <<>> THEN st
    ELSE handleMessage(HandleOne(st, Head(messages)), Tail(messages))

\* ---- what the device sends ----
ValidScript == <<"--[[@a]]", "x", "--[[@b#n]]", " ", "y">>
HugeScript == [i \in 1..(MAX_SCRIPT_SIZE + 1) |-> "x"]

ActionStrings ==
    { Undefined, Num(0), Num(7), Str(<<>>), Str(wrapScript(ValidScript)),
      Str(HugeScript) }

ConfigReport(page, actionString) ==
    Message(Num(ModuleDx), Num(ModuleDy), "CONFIG", "REPORT",
            ("PAGENUMBER" :> Num(page)) @@ ("ELEMENTNUMBER" :> Num(0)) @@
            ("EVENTTYPE" :> Num(0)) @@ ("ACTIONSTRING" :> actionString))
ConfigAck == Message(Num(ModuleDx), Num(ModuleDy), "CONFIG", "ACKNOWLEDGE", NoParams)
\* the acknowledgement of one CONFIG/EXECUTE: its class parameters name the
\* event of the EXECUTE (createSendConfig's PAGENUMBER, ELEMENTNUMBER and
\* EVENTTYPE) that the module answers with it
ConfigAckFor(page, element, eventType) ==
    Message(Num(ModuleDx), Num(ModuleDy), "CONFIG", "ACKNOWLEDGE",
            ("PAGENUMBER" :> Num(page)) @@ ("ELEMENTNUMBER" :> Num(element)) @@
            ("EVENTTYPE" :> Num(eventType)))
PageActiveReport(page) ==
    Message(Num(ModuleDx), Num(ModuleDy), "PAGEACTIVE", "REPORT", "PAGENUMBER" :> page)
PageStoreAck == Message(Num(ModuleDx), Num(ModuleDy), "PAGESTORE", "ACKNOWLEDGE", NoParams)
NvmEraseAck == Message(Num(ModuleDx), Num(ModuleDy), "NVMERASE", "ACKNOWLEDGE", NoParams)
DebugText(text) ==
    Message(Num(ModuleDx), Num(ModuleDy), "DEBUGTEXT", "REPORT", "TEXT" :> Str(<<text>>))
Heartbeat(hwcfg) ==
    Message(Num(ModuleDx), Num(ModuleDy), "HEARTBEAT", "REPORT", "HWCFG" :> hwcfg)

DeviceMessages ==
    {ConfigReport(0, as) : as \in ActionStrings}
        \cup {ConfigReport(1, Str(wrapScript(ValidScript)))}
        \cup {ConfigAck, PageStoreAck, NvmEraseAck}
        \cup {ConfigAckFor(0, 0, 0), ConfigAckFor(1, 0, 3)}
        \cup {PageActiveReport(Num(0)), PageActiveReport(Num(1)), PageActiveReport(Str(<<"1">>))}
        \cup {DebugText("page change is disabled"), DebugText("hello")}
        \cup {Heartbeat(Num(4)), Heartbeat(Undefined)}

\* the decoded content of one payload: one message, or two
Frames ==
    {<<m>> : m \in DeviceMessages}
        \cup {<<Heartbeat(Num(4)), ConfigAck>>,
              <<ConfigReport(1, Str(wrapScript(ValidScript))), ConfigReport(0, Str(<<>>))>>}

\* ---- actions ----
DeviceInit ==
    /\ task = [t \in Tasks |-> IdleTask]
    /\ pendingWaiters = <<>>
    /\ pageChangeDisabled = FALSE
    /\ closing = FALSE
    /\ modules = <<>>
    /\ ready = <<>>

\* a step of task t takes effect
Apply(t, step, pending) ==
    /\ task' = [task EXCEPT ![t] = step.tk]
    /\ pendingWaiters' = IF step.push THEN Append(pending, Entry(t, 0)) ELSE pending
    /\ pageChangeDisabled' = step.latch

\* fetchEventConfig(dx, dy, page, element, eventType) up to connection.write
fetchEventConfig(t, page) ==
    /\ Apply(t, Begin([IdleTask EXCEPT !.op = "fetch"],
                      createFetchConfig(ModuleDx, ModuleDy, page, 0, 0),
                      pageChangeDisabled),
             pendingWaiters)
    /\ UNCHANGED <<closing, modules, ready>>
    /\ UNCHANGED notDevice

\* sendModuleConfig(config) up to connection.write
sendModuleConfig(t, config) ==
    /\ Apply(t, sendPages([IdleTask EXCEPT !.op = "send", !.config = config,
                                           !.pageIdx = 1],
                          pageChangeDisabled),
             pendingWaiters)
    /\ UNCHANGED <<closing, modules, ready>>
    /\ UNCHANGED notDevice

\* storeToFlash() up to connection.write
storeToFlash(t) ==
    /\ Apply(t, Begin([IdleTask EXCEPT !.op = "store"], createStorePage,
                      pageChangeDisabled),
             pendingWaiters)
    /\ UNCHANGED <<closing, modules, ready>>
    /\ UNCHANGED notDevice

\* eraseNvm() up to connection.write
eraseNvm(t) ==
    /\ Apply(t, Begin([IdleTask EXCEPT !.op = "erase"], createNVMErase,
                      pageChangeDisabled),
             pendingWaiters)
    /\ UNCHANGED <<closing, modules, ready>>
    /\ UNCHANGED notDevice

\* A caller that awaits each call before it makes the next one (the
\* commands pull, push and clear).
Caller == 1
MayCallWithoutAwait == ready = <<>> /\ task[Caller].pc \in {"idle", "done", "wait"}
MayCall == ready = <<>> /\ task[Caller].pc \in {"idle", "done"}

FetchEventConfigCall ==
    MayCall /\ \E page \in FetchPages : fetchEventConfig(Caller, page)

SendModuleConfigCall ==
    MayCall /\ \E config \in Configs : sendModuleConfig(Caller, config)

StoreToFlashCall ==
    MayCall /\ storeToFlash(Caller)

EraseNvmCall ==
    MayCall /\ eraseNvm(Caller)

\* Callers that do not wait for one another: the calls are made in the order
\* of the tasks, each task makes one call.
MayCallConcurrently(t) ==
    /\ ready = <<>>
    /\ task[t].pc = "idle"
    /\ \A u \in Tasks : u < t => task[u].op # "none"

ConcurrentFetchEventConfig ==
    \E t \in Tasks : MayCallConcurrently(t) /\ fetchEventConfig(t, 0)

ConcurrentStoreToFlash ==
    \E t \in Tasks : MayCallConcurrently(t) /\ storeToFlash(t)

\* connection.write completes: the task goes on to await the waiter, or the
\* write failed and sendAndWait cancels the waiter and throws
WriteDone ==
    /\ ready = <<>>
    /\ \E t \in Tasks, ok \in BOOLEAN :
        /\ task[t].pc = "write"
        /\ IF ok
           THEN /\ task' = [task EXCEPT ![t].pc = "wait"]
                /\ ready' = IF task[t].waiter.settled = "no" THEN <<>> ELSE <<t>>
                /\ UNCHANGED <<pendingWaiters, pageChangeDisabled>>
           ELSE /\ Apply(t,
                         afterSendAndWait(
                             [task[t] EXCEPT !.waiter.settled =
                                 IF @ = "no" THEN "cancelled" ELSE @],
                             FALSE, NoMessage, "ConnectionError", pageChangeDisabled),
                         RemoveFirst(pendingWaiters, Entry(t, task[t].attempt)))
                /\ UNCHANGED ready
    /\ UNCHANGED <<closing, modules>>
    /\ UNCHANGED notDevice

\* the timer of a started, unsettled waiter fires
WaiterTimeout ==
    /\ ready = <<>>
    /\ \E t \in Tasks :
        /\ task[t].pc \in {"write", "wait"}
        /\ task[t].waiter.settled = "no"
        /\ task' = [task EXCEPT ![t].waiter.settled = "timeout"]
        /\ ready' = IF task[t].pc = "wait" THEN <<t>> ELSE <<>>
    /\ UNCHANGED <<pendingWaiters, pageChangeDisabled, closing, modules>>
    /\ UNCHANGED notDevice

\* the continuation of "await waitPromise" in sendAndWait, and of its caller
Resume ==
    /\ ready # <<>>
    /\ LET t == Head(ready)
           tk == task[t]
           removed == RemoveFirst(pendingWaiters, Entry(t, tk.attempt))
       IN  CASE tk.waiter.settled = "resolved" ->
                    Apply(t, afterSendAndWait(tk, TRUE, tk.waiter.message, "",
                                              pageChangeDisabled), removed)
             [] tk.waiter.settled = "timeout" ->
                    IF ShouldRetry("TimeoutError", tk.attempt, tk.req.retries)
                    THEN /\ task' = [task EXCEPT ![t] =
                                        [tk EXCEPT !.pc = "delay",
                                                   !.attempt = tk.attempt + 1,
                                                   !.timedOut = tk.timedOut + 1]]
                         /\ UNCHANGED <<pendingWaiters, pageChangeDisabled>>
                    ELSE Apply(t, afterSendAndWait(
                                      [tk EXCEPT !.timedOut = tk.timedOut + 1],
                                      FALSE, NoMessage, "TimeoutError",
                                      pageChangeDisabled), removed)
             [] OTHER ->
                    Apply(t, afterSendAndWait(tk, FALSE, NoMessage, "Cancelled",
                                              pageChangeDisabled), removed)
    /\ ready' = Tail(ready)
    /\ UNCHANGED <<closing, modules>>
    /\ UNCHANGED notDevice

RetryDelayDoneKeepsWaiter ==
    /\ ready = <<>>
    /\ \E t \in Tasks :
        /\ task[t].pc = "delay"
        /\ task' = [task EXCEPT ![t].pc = "write", ![t].waiter = FreshWaiter,
                                ![t].writes = @ + 1]
        /\ pendingWaiters' = Append(pendingWaiters, Entry(t, task[t].attempt))
    /\ UNCHANGED <<pageChangeDisabled, closing, modules, ready>>
    /\ UNCHANGED notDevice

\* the retry delay of sendAndWait is over: the old waiter leaves
\* pendingWaiters, the next attempt registers its waiter and writes
RetryDelayDone ==
    /\ ready = <<>>
    /\ \E t \in Tasks :
        /\ task[t].pc = "delay"
        /\ task' = [task EXCEPT ![t].pc = "write", ![t].waiter = FreshWaiter,
                                ![t].writes = @ + 1]
        /\ pendingWaiters' =
              Append(RemoveFirst(pendingWaiters, Entry(t, task[t].attempt - 1)),
                     Entry(t, task[t].attempt))
    /\ UNCHANGED <<pageChangeDisabled, closing, modules, ready>>
    /\ UNCHANGED notDevice

\* the 30 ms pause after an event was sent is over
PauseDone ==
    /\ ready = <<>>
    /\ \E t \in Tasks :
        /\ task[t].pc = "pause"
        /\ Apply(t, sendEvents(task[t], pageChangeDisabled), pendingWaiters)
    /\ UNCHANGED <<closing, modules, ready>>
    /\ UNCHANGED notDevice

\* handleMessage past its gate: the payload is decoded and its messages
\* are handled in order
Deliver(frame) ==
    LET st == handleMessage(DeviceState(task, pendingWaiters, pageChangeDisabled,
                                        modules, <<>>), frame)
    IN  /\ task' = st.task
        /\ pendingWaiters' = st.pending
        /\ pageChangeDisabled' = st.latch
        /\ modules' = st.modules
        /\ ready' = st.ready

HandleDataUngated(frame) == Deliver(frame)

\* handleMessage(data) from its first statement: "if (this.closing) return"
HandleData(frame) ==
    IF closing
    THEN UNCHANGED <<task, pendingWaiters, pageChangeDisabled, modules, ready>>
    ELSE Deliver(frame)

\* a payload reaches handleMessage, before or after close() has set closing
DeviceMessage ==
    /\ ready = <<>>
    /\ \E frame \in Frames : HandleData(frame)
    /\ UNCHANGED closing
    /\ UNCHANGED notDevice

\* the payloads that arrive while the concurrent callers wait
ConcurrentFrames ==
    { <<ConfigReport(0, Str(wrapScript(ValidScript)))>>,
      <<ConfigReport(1, Str(wrapScript(ValidScript)))>>,
      <<Heartbeat(Num(4))>>,
      <<PageStoreAck, ConfigReport(0, Str(wrapScript(ValidScript)))>>,
      <<ConfigReport(0, Str(wrapScript(ValidScript))), ConfigReport(0, Undefined)>> }

ConcurrentMessage ==
    /\ ready = <<>>
    /\ ~closing
    /\ \E frame \in ConcurrentFrames : Deliver(frame)
    /\ UNCHANGED closing
    /\ UNCHANGED notDevice

\* fetchEventConfig on a connection whose write() throws at its guard: the
\* waiter is registered and started, the rejection of connection.write is
\* caught, the waiter cancelled and removed, and fetchEventConfig returns
\* the failed result, all before any timer or I/O callback runs
FetchRejected ==
    /\ \E t \in Tasks :
        /\ MayCallConcurrently(t)
        /\ LET begun == Begin([IdleTask EXCEPT !.op = "fetch"],
                              createFetchConfig(ModuleDx, ModuleDy, 0, 0, 0),
                              pageChangeDisabled).tk
           IN  Apply(t, afterSendAndWait([begun EXCEPT !.waiter.settled = "cancelled"],
                                         FALSE, NoMessage, "ConnectionError",
                                         pageChangeDisabled),
                     pendingWaiters)
    /\ UNCHANGED <<closing, modules, ready>>
    /\ UNCHANGED notDevice

\* the retry delay of sendAndWait is over on a connection whose write()
\* throws at its guard: the ConnectionError is not retried
RetryRejected ==
    /\ ready = <<>>
    /\ \E t \in Tasks :
        /\ task[t].pc = "delay"
        /\ Apply(t, afterSendAndWait([task[t] EXCEPT !.waiter.settled = "cancelled",
                                                     !.writes = @ + 1],
                                     FALSE, NoMessage, "ConnectionError",
                                     pageChangeDisabled),
                 RemoveFirst(pendingWaiters, Entry(t, task[t].attempt - 1)))
    /\ UNCHANGED <<closing, modules, ready>>
    /\ UNCHANGED notDevice

CancelKeepsWaiters ==
    /\ UNCHANGED <<task, ready, pendingWaiters>>

\* close(): the copy of pendingWaiters, the empty list, waiter.cancel() on
\* each copy; the continuations of the rejected promises are queued
CancelWaiters ==
    /\ LET cancelled == {pendingWaiters[i].task : i \in
                            {j \in 1..Len(pendingWaiters) : Unsettled(task, pendingWaiters[j])}}
       IN  /\ task' = [t \in Tasks |->
                          IF t \in cancelled
                          THEN [task[t] EXCEPT !.waiter.settled = "cancelled"]
                          ELSE task[t]]
           /\ ready' = SelectSeq([i \in 1..Len(pendingWaiters) |-> pendingWaiters[i].task],
                                 LAMBDA t : t \in cancelled /\ task[t].pc = "wait")
    /\ pendingWaiters' = <<>>

\* close() up to connection.close()
DeviceClose ==
    /\ ready = <<>>
    /\ ~closing
    /\ closing' = TRUE
    /\ CancelWaiters
    /\ UNCHANGED <<pageChangeDisabled, modules>>
    /\ UNCHANGED notDevice

DeviceNext ==
    \/ FetchEventConfigCall
    \/ SendModuleConfigCall
    \/ StoreToFlashCall
    \/ EraseNvmCall
    \/ WriteDone
    \/ WaiterTimeout
    \/ Resume
    \/ RetryDelayDone
    \/ PauseDone
    \/ DeviceMessage
    \/ DeviceClose

\* the Device under callers that do not wait for one another
ConcurrentNext ==
    \/ ConcurrentFetchEventConfig
    \/ ConcurrentStoreToFlash
    \/ WriteDone
    \/ WaiterTimeout
    \/ Resume
    \/ RetryDelayDone
    \/ ConcurrentMessage

(***************************************************************************)
(* Module discovery: the handling of HEARTBEAT messages by a connected     *)
(* GridDevice (src/unnamed/part_003)                                       *)
(***************************************************************************)
\* the most HEARTBEAT messages the model delivers to one device
MaxHeartbeats == 3

\* a HEARTBEAT as the decoder hands it over
HeartbeatFrom(sx, sy, hwcfg, firmware) ==
    Message(sx, sy, "HEARTBEAT", "REPORT", ("HWCFG" :> hwcfg) @@ firmware)

\* the firmware fields: all three as numeric strings, or VMAJOR as a number,
\* VMINOR not numeric and VPATCH missing
FirmwareFields ==
    { ("VMAJOR" :> Str(<<"1">>)) @@ ("VMINOR" :> Str(<<"0">>)) @@ ("VPATCH" :> Str(<<"3">>)),
      ("VMAJOR" :> Num(3)) @@ ("VMINOR" :> Str(<<"a">>)) }

\* positions (0,0) and (1,0), the latter with SX as a string and as a number
HeartbeatPositions ==
    { <<Num(0), Str(<<"0">>)>>, <<Str(<<"1">>), Num(0)>>, <<Num(1), Str(<<" ", "0">>)>> }

HeartbeatMessages ==
    {HeartbeatFrom(pos[1], pos[2], hwcfg, fw) :
        pos \in HeartbeatPositions, hwcfg \in {Str(<<"1">>), Str(<<"0">>)},
        fw \in FirmwareFields}
      \cup {HeartbeatFrom(Num(0), Num(0), Str(<<"a">>), NoParams),
            HeartbeatFrom(Undefined, Num(0), Num(3), NoParams)}

\* the decoded content of one payload: one heartbeat, or two as in
\* tests/discovery.test.ts
HeartbeatFrames ==
    {<<m>> : m \in HeartbeatMessages}
      \cup {<<HeartbeatFrom(Str(<<"0">>), Str(<<"0">>), Str(<<"1">>),
                  ("VMAJOR" :> Str(<<"1">>)) @@ ("VMINOR" :> Str(<<"1">>)) @@ ("VPATCH" :> Str(<<"3">>))),
              HeartbeatFrom(Str(<<"1">>), Str(<<"0">>), Str(<<"0">>),
                  ("VMAJOR" :> Str(<<"3">>)) @@ ("VMINOR" :> Str(<<"0">>)) @@ ("VPATCH" :> Str(<<"1">>)))>>}

\* ---- waitForModules ----
\* the polling interval and the longest tail wait of waitForModules, in ms
POLL_MS == 100
TAIL_MS == 500

\* the clock advances in steps of half a polling interval
TimeStep == POLL_MS \div 2

\* the largest budget the model passes to waitForModules, in time steps
MaxBudgetSteps == 14

Min(a, b) == IF a <= b THEN a ELSE b

\* no waitForModules call so far
NotWaiting ==
    [pc |-> "idle", timeoutMs |-> 0, startTime |-> 0, wake |-> 0, waitTime |-> 0,
     seenAt |-> 0 - 1, result |-> <<>>, returnedAt |-> 0]

SessionIdle ==
    /\ heartbeats = <<>>
    /\ editorHeartbeatTimer = FALSE
    /\ messageHandler = TRUE
    /\ closePc = "idle"
    /\ closeVia = "none"
    /\ registered = FALSE
    /\ now = 0
    /\ wait = NotWaiting

\* a payload of heartbeats arrives while the listener is attached
HeartbeatMessage ==
    /\ ready = <<>>
    /\ ~closing
    /\ \E frame \in HeartbeatFrames :
          /\ Len(heartbeats) + Len(frame) <= MaxHeartbeats
          /\ Deliver(frame)
          /\ heartbeats' = heartbeats \o frame
    /\ UNCHANGED <<closing, editorHeartbeatTimer, messageHandler, closePc, closeVia, registered, now, wait>>
    /\ UNCHANGED <<linkVars, notSession>>

DiscoveryNext == HeartbeatMessage \/ DeviceClose

\* ---- shutdown: GridDevice.close() statement by statement, and ----
\* ---- DeviceManager.disconnect(device)                         ----
\* A device as the commands hold it: constructed (message handler
\* attached), and either not opened, or opened by DeviceManager.connect,
\* which starts the editor heartbeat and registers the device.
ShutdownInit ==
    /\ DeviceInit
    /\ connWaiters = <<>>
    /\ connWaiterState = [w \in ConnWaiterIds |-> "unused"]
    /\ connDelivered = {}
    /\ closeCalls = 0
    /\ isOpen \in BOOLEAN
    /\ port = IF isOpen THEN "open" ELSE "null"
    /\ listening = isOpen
    /\ heartbeats = <<>>
    /\ editorHeartbeatTimer = isOpen
    /\ messageHandler = TRUE
    /\ closePc = "idle"
    /\ closeVia = "none"
    /\ registered = isOpen
    /\ now = 0
    /\ wait = NotWaiting

\* close() runs from its first statement to the await without yielding
InClose == closePc \in {"flagged", "stopped", "detached", "cancelled"}

\* close() is called, directly or by disconnect(device): this.closing = true
CloseCall ==
    /\ ready = <<>>
    /\ closePc \in {"idle", "returned", "thrown"}
    /\ closeCalls < MaxCloseCalls
    /\ \E via \in {"close", "disconnect"} : closeVia' = via
    /\ closing' = TRUE
    /\ closePc' = "flagged"
    /\ UNCHANGED <<task, pendingWaiters, pageChangeDisabled, modules, ready>>
    /\ UNCHANGED <<heartbeats, editorHeartbeatTimer, messageHandler, registered, now, wait>>
    /\ UNCHANGED <<linkVars, notSession>>

\* this.stopEditorHeartbeat()
CloseStopEditorHeartbeat ==
    /\ closePc = "flagged"
    /\ editorHeartbeatTimer' = FALSE
    /\ closePc' = "stopped"
    /\ UNCHANGED <<heartbeats, messageHandler, closeVia, registered, now, wait>>
    /\ UNCHANGED <<deviceVars, linkVars, notSession>>

\* connection.off("message", this.messageHandler); this.messageHandler = null
CloseDetachHandler ==
    /\ closePc = "stopped"
    /\ messageHandler' = FALSE
    /\ closePc' = "detached"
    /\ UNCHANGED <<heartbeats, editorHeartbeatTimer, closeVia, registered, now, wait>>
    /\ UNCHANGED <<deviceVars, linkVars, notSession>>

\* the waiters are cancelled
CloseCancelWaiters ==
    /\ closePc = "detached"
    /\ CancelWaiters
    /\ closePc' = "cancelled"
    /\ UNCHANGED <<pageChangeDisabled, closing, modules>>
    /\ UNCHANGED <<heartbeats, editorHeartbeatTimer, messageHandler, closeVia, registered, now, wait>>
    /\ UNCHANGED <<linkVars, notSession>>

\* await this.connection.close(): the connection's close() runs up to
\* port.close(); when it returned at its guard, close() returns after it,
\* and disconnect goes on to devices.delete
CloseConnection ==
    /\ closePc = "cancelled"
    /\ ConnectionClose
    /\ closePc' = IF CloseReturnsEarly THEN "returned" ELSE "awaiting"
    /\ registered' = IF CloseReturnsEarly /\ closeVia = "disconnect" THEN FALSE ELSE registered
    /\ UNCHANGED <<heartbeats, editorHeartbeatTimer, messageHandler, closeVia, now, wait>>
    /\ UNCHANGED <<deviceVars, notSession>>

\* the callback of port.close() settles the promise close() awaits: close()
\* returns or throws the ConnectionError, and so does disconnect, which
\* has no try around "await device.close()"
ClosePortClosed ==
    /\ closePc = "awaiting"
    /\ ready = <<>>
    /\ \E ok \in BOOLEAN :
          /\ PortClosed(ok)
          /\ closePc' = IF ok THEN "returned" ELSE "thrown"
          /\ registered' = IF ok /\ closeVia = "disconnect" THEN FALSE ELSE registered
    /\ UNCHANGED <<heartbeats, editorHeartbeatTimer, messageHandler, closeVia, now, wait>>
    /\ UNCHANGED <<deviceVars, notSession>>

\* the device is unplugged: portCloseHandler
PortLost ==
    /\ ~InClose
    /\ ready = <<>>
    /\ ConnPortCloseEvent

\* The loop of waitForModules from its test to the next await, at time
\* now: the call returns the snapshot, or sleeps for the tail wait, or
\* sleeps for one polling interval
waitLoop(w) ==
    IF ~(now - w.startTime < w.timeoutMs)
    THEN [w EXCEPT !.pc = "returned", !.result = modules, !.returnedAt = now]
    ELSE IF Len(modules) > 0
    THEN LET remaining == w.timeoutMs - (now - w.startTime)
             waitTime == Min(TAIL_MS, Max(0, remaining))
         IN  IF waitTime > 0
             THEN [w EXCEPT !.pc = "tail", !.seenAt = now, !.waitTime = waitTime,
                            !.wake = now + waitTime]
             ELSE [w EXCEPT !.pc = "returned", !.seenAt = now, !.waitTime = waitTime,
                            !.result = modules, !.returnedAt = now]
    ELSE [w EXCEPT !.pc = "polling", !.wake = now + POLL_MS]

\* waitForModules(timeoutMs) is called
WaitForModulesCall ==
    /\ wait.pc = "idle"
    /\ ready = <<>>
    /\ \E k \in 0..MaxBudgetSteps :
          wait' = waitLoop([NotWaiting EXCEPT !.timeoutMs = k * TimeStep, !.startTime = now])
    /\ UNCHANGED <<heartbeats, editorHeartbeatTimer, messageHandler, closePc, closeVia, registered, now>>
    /\ UNCHANGED <<deviceVars, linkVars, notSession>>

\* the timer waitForModules sleeps on fires: after the tail wait the loop is
\* left and the snapshot returned, after a polling interval the loop goes on
WaitTimerFires ==
    /\ wait.pc \in {"polling", "tail"}
    /\ now = wait.wake
    /\ ready = <<>>
    /\ wait' = IF wait.pc = "tail"
               THEN [wait EXCEPT !.pc = "returned", !.result = modules, !.returnedAt = now]
               ELSE waitLoop(wait)
    /\ UNCHANGED <<heartbeats, editorHeartbeatTimer, messageHandler, closePc, closeVia, registered, now>>
    /\ UNCHANGED <<deviceVars, linkVars, notSession>>

\* time passes; a timer that is due fires before more time passes
TimePasses ==
    /\ wait.pc # "returned"
    /\ wait.pc = "idle" => now < POLL_MS
    /\ wait.pc \in {"polling", "tail"} => now < wait.wake
    /\ now' = now + TimeStep
    /\ UNCHANGED <<heartbeats, editorHeartbeatTimer, messageHandler, closePc, closeVia, registered, wait>>
    /\ UNCHANGED <<deviceVars, linkVars, notSession>>

\* the heartbeats of two modules, arriving at any time
ModuleHeartbeats ==
    {<<Heartbeat(Num(4))>>, <<HeartbeatFrom(Num(1), Num(0), Str(<<"1">>), NoParams)>>}

ModuleHeartbeat ==
    /\ ready = <<>>
    /\ ~closing
    /\ \E frame \in ModuleHeartbeats : Deliver(frame)
    /\ UNCHANGED closing
    /\ UNCHANGED <<linkVars, sessionVars, notSession>>

WaitNext == WaitForModulesCall \/ WaitTimerFires \/ TimePasses \/ ModuleHeartbeat

ShutdownNext ==
    \/ CloseCall
    \/ CloseStopEditorHeartbeat
    \/ CloseDetachHandler
    \/ CloseCancelWaiters
    \/ CloseConnection
    \/ ClosePortClosed
    \/ PortLost
    \/ (~InClose /\ ~WriteRejected /\ ConcurrentFetchEventConfig)
    \/ (~InClose /\ WriteRejected /\ FetchRejected)
    \/ (~InClose /\ WriteDone)
    \/ (~InClose /\ WaiterTimeout)
    \/ (~InClose /\ Resume)
    \/ (~InClose /\ ~WriteRejected /\ RetryDelayDone)
    \/ (~InClose /\ WriteRejected /\ RetryRejected)

(***************************************************************************)
(* pushCommand (src/src/commands/push.ts): read, validate, connect, erase, *)
(* send, store, disconnect.  The device operations are the calls of the    *)
(* GridDevice part made by the one caller; the run's position between two  *)
(* of them is read off the caller's task.                                  *)
(***************************************************************************)
\* an event as readConfig returns it: shorts[i] tells whether action i has
\* a non-empty short
PushEvent(elementIndex, eventType, tooLarge, shorts) ==
    [elementIndex |-> elementIndex, eventType |-> eventType, tooLarge |-> tooLarge,
     shorts |-> shorts]

\* the configurations readConfig returns to pushCommand
PushConfigs ==
    { <<Page(0, <<PushEvent(0, 0, FALSE, <<TRUE>>)>>)>>,
      <<Page(0, <<PushEvent(0, 0, FALSE, <<TRUE>>)>>),
        Page(1, <<PushEvent(0, 3, FALSE, <<TRUE>>), PushEvent(1, 0, FALSE, <<TRUE, TRUE>>)>>)>>,
      <<Page(0, <<PushEvent(0, 0, FALSE, <<FALSE>>)>>),
        Page(1, <<PushEvent(0, 3, FALSE, <<TRUE, FALSE>>)>>)>>,
      <<Page(1, <<PushEvent(0, 0, TRUE, <<TRUE>>)>>)>> }

\* validateActions(event.actions): one error per action without a short
validateActions(shorts) == SelectSeq([i \in 1..Len(shorts) |-> i], LAMBDA i : ~shorts[i])

validateFirstErrorOnly(config) ==
    LET all == Flatten([p \in 1..Len(config) |->
                   Flatten([e \in 1..Len(config[p].events) |->
                       LET errors == validateActions(config[p].events[e].shorts)
                       IN  [k \in 1..Len(errors) |->
                               [page |-> config[p].pageNumber,
                                element |-> config[p].events[e].elementIndex,
                                action |-> errors[k]]]])])
    IN  IF all = <<>> THEN <<>> ELSE <<Head(all)>>

\* validateConfig(configs): the errors of every event of every page, each
\* with its page and element; the ValidationError carries them all
validateConfig(config) ==
    Flatten([p \in 1..Len(config) |->
        Flatten([e \in 1..Len(config[p].events) |->
            LET errors == validateActions(config[p].events[e].shorts)
            IN  [k \in 1..Len(errors) |->
                    [page |-> config[p].pageNumber,
                     element |-> config[p].events[e].elementIndex,
                     action |-> errors[k]]]])])

\* ---- parsePageList (src/unnamed/part_000) ----
\* the longest page list
MaxListLen == 5
ListChars == {"0", "1", "2", "3", ",", "-", " "}

\* split(separator)
RECURSIVE Split(_, _)
Split(s, separator) ==
    LET at == {i \in 1..Len(s) : s[i] = separator}
    IN  IF at = {} THEN <<s>>
        ELSE LET first == CHOOSE i \in at : \A j \in at : i <= j
             IN  <<SubSeq(s, 1, first - 1)>> \o Split(SubSeq(s, first + 1, Len(s)), separator)

NoPageList == [called |-> FALSE, thrown |-> FALSE, pages |-> {}]
PageListError == [called |-> TRUE, thrown |-> TRUE, pages |-> {}]

\* the loop over the parts: the set so far, or the GridError
RECURSIVE ParseParts(_, _)
ParseParts(parts, result) ==
    IF parts = <<>> THEN [called |-> TRUE, thrown |-> FALSE, pages |-> result]
    ELSE LET part == Head(parts)
         IN  IF "-" \in Range(part)
             THEN LET pieces == Split(part, "-")
                      start == StringToNumber(pieces[1])
                      end == StringToNumber(pieces[2])
                  IN  IF ~start.finite \/ ~end.finite \/ start.v > end.v
                      THEN PageListError
                      ELSE ParseParts(Tail(parts), result \cup (start.v..end.v))
             ELSE LET value == StringToNumber(part)
                  IN  IF ~value.finite THEN PageListError
                      ELSE ParseParts(Tail(parts), result \cup {value.v})

parsePageList(input) ==
    LET trimmed == [i \in 1..Len(Split(input, ",")) |-> Trim(Split(input, ",")[i])]
        parts == SelectSeq(trimmed, LAMBDA part : part # <<>>)
    IN  ParseParts(parts, {})

PageListIdle ==
    /\ pageListInput = <<>>
    /\ pageListResult = NoPageList

PageListInit ==
    /\ pageListInput \in SeqsUpTo(ListChars, MaxListLen)
    /\ pageListResult = NoPageList

ParsePageListCall ==
    /\ ~pageListResult.called
    /\ pageListResult' = parsePageList(pageListInput)
    /\ UNCHANGED <<pushPc, pushOpts, pushConfig, pushErrors, pushThrown, pushDevice,
                   pageListInput>>
    /\ UNCHANGED notPush

\* ---- pushCommand ----
\* the module the configuration on disk was made for (config.module)
ConfigModule == [dx |-> ModuleDx, dy |-> ModuleDy, type |-> "PO16"]

\* no device is held
NoDevice == [dx |-> 0, dy |-> 0, type |-> "none"]

\* what device.getModules() may return for the one module of the device:
\* the module of the configuration, another type at its place, its type
\* at another place
PushDeviceModules ==
    { ConfigModule,
      [ConfigModule EXCEPT !.type = "BU16"],
      [ConfigModule EXCEPT !.dx = ModuleDx + 1] }

PushTargetAtPlace(module) ==
    module.dx = ConfigModule.dx /\ module.dy = ConfigModule.dy

\* modules.find by (dx, dy) found the module, and its type is the type of
\* the configuration: the configuration is pushed, otherwise skipped
PushTarget(module) ==
    /\ module.dx = ConfigModule.dx /\ module.dy = ConfigModule.dy
    /\ module.type = ConfigModule.type

PushIdle ==
    /\ PageListIdle
    /\ pushPc = "idle"
    /\ pushOpts = [dryRun |-> FALSE, clear |-> FALSE, noStore |-> FALSE]
    /\ pushConfig = <<>>
    /\ pushErrors = <<>>
    /\ pushThrown = ""
    /\ pushDevice = NoDevice

\* pushCommand ends: with an error class or without
PushEnds(error) ==
    /\ pushPc' = IF error = "" THEN "done" ELSE "error"
    /\ pushThrown' = error

\* isValidConfigDir and readConfig
PushRead ==
    /\ pushPc = "idle"
    /\ \E dryRun \in BOOLEAN, clear \in BOOLEAN, noStore \in BOOLEAN :
          pushOpts' = [dryRun |-> dryRun, clear |-> clear, noStore |-> noStore]
    /\ \/ PushEnds("GridError") /\ UNCHANGED pushConfig
       \/ PushEnds("ConfigError") /\ UNCHANGED pushConfig
       \/ \E config \in PushConfigs :
             pushPc' = "read" /\ pushConfig' = config /\ UNCHANGED pushThrown
    /\ UNCHANGED <<pushErrors, pushDevice, pageListInput, pageListResult>>
    /\ UNCHANGED notPush

\* validateConfig(configs) and the catch that logs every error
PushValidate ==
    /\ pushPc = "read"
    /\ pushErrors' = validateConfig(pushConfig)
    /\ IF pushErrors' # <<>>
       THEN PushEnds("GridError")
       ELSE pushPc' = "validated" /\ UNCHANGED pushThrown
    /\ UNCHANGED <<pushOpts, pushConfig, pushDevice, pageListInput, pageListResult>>
    /\ UNCHANGED notPush

\* --pages and --skip-pages (both given, or a list parsePageList rejects),
\* the summary, and the return of a dry run
PushOptions ==
    /\ pushPc = "validated"
    /\ \E accepted \in BOOLEAN :
          IF ~accepted THEN PushEnds("GridError")
          ELSE IF pushOpts.dryRun THEN PushEnds("")
          ELSE pushPc' = "connecting" /\ UNCHANGED pushThrown
    /\ UNCHANGED <<pushOpts, pushConfig, pushErrors, pushDevice, pageListInput, pageListResult>>
    /\ UNCHANGED notPush

\* deviceManager.connect(options.device) and device.getModules(): connect
\* throws, or no module was discovered (the finally disconnects), or the
\* device has a module
PushConnect ==
    /\ pushPc = "connecting"
    /\ \/ PushEnds("ConnectionError") /\ UNCHANGED pushDevice
       \/ PushEnds("GridError") /\ UNCHANGED pushDevice
       \/ \E module \in PushDeviceModules :
             pushPc' = "connected" /\ pushDevice' = module /\ UNCHANGED pushThrown
    /\ UNCHANGED <<pushOpts, pushConfig, pushErrors, pageListInput, pageListResult>>
    /\ UNCHANGED notPush

\* the caller's last device operation and how it ended
Returned(op) ==
    task[Caller].op = op /\ task[Caller].pc = "done" /\ task[Caller].outcome = "returned"
Threw == task[Caller].pc = "done" /\ task[Caller].outcome = "thrown"

\* the run has reached the loop over the configurations
AtModuleLoop ==
    /\ pushPc = "connected"
    /\ ready = <<>>
    /\ IF pushOpts.clear THEN Returned("erase") ELSE task[Caller].pc = "idle"

\* if (options.clear) await device.eraseNvm()
PushErase ==
    /\ pushPc = "connected"
    /\ pushOpts.clear
    /\ ready = <<>>
    /\ task[Caller].pc = "idle"
    /\ eraseNvm(Caller)

\* await device.sendModuleConfig(config) for the module found on the device
PushSend ==
    /\ AtModuleLoop
    /\ PushTarget(pushDevice)
    /\ sendModuleConfig(Caller, pushConfig)

\* if (!options.noStore) await device.storeToFlash()
PushStore ==
    /\ pushPc = "connected"
    /\ ready = <<>>
    /\ Returned("send")
    /\ ~pushOpts.noStore
    /\ storeToFlash(Caller)

\* the run ends and the finally disconnects: no module was pushed, a device
\* operation threw, or the configuration was pushed (and stored)
PushFinish ==
    /\ pushPc = "connected"
    /\ ready = <<>>
    /\ \/ AtModuleLoop /\ ~PushTarget(pushDevice) /\ PushEnds("GridError")
       \/ Threw /\ PushEnds(task[Caller].error)
       \/ Returned("send") /\ pushOpts.noStore /\ PushEnds("")
       \/ Returned("store") /\ PushEnds("")
    /\ pushDevice' = NoDevice
    /\ UNCHANGED <<pushOpts, pushConfig, pushErrors, pageListInput, pageListResult>>
    /\ UNCHANGED notPush

PushNext ==
    \/ PushRead
    \/ PushValidate
    \/ PushOptions
    \/ PushConnect
    \/ PushErase
    \/ PushSend
    \/ PushStore
    \/ PushFinish
    \/ (pushPc = "connected" /\ WriteDone)
    \/ (pushPc = "connected" /\ WaiterTimeout)
    \/ (pushPc = "connected" /\ Resume)
    \/ (pushPc = "connected" /\ RetryDelayDone)
    \/ (pushPc = "connected" /\ PauseDone)
    \/ (pushPc = "connected" /\ DeviceMessage)

(***************************************************************************)
(* Configuration codec: writeConfig (config/writer.ts) with                *)
(* formatActionBlock, and readConfig (config/reader.ts) with readPageFile  *)
(* and parseLuaFile.  A text is a sequence of pieces, a file a sequence of *)
(* lines; a line is one of the shapes the writer produces and the reader   *)
(* tells apart.                                                            *)
(***************************************************************************)
\* the page numbers a fetched configuration may hold: 0 .. MaxConfigPages - 1
MaxConfigPages == 2

\* ---- text ----
WhiteSpace == {" ", "\n"}

IsBlankText(s) == \A i \in 1..Len(s) : s[i] \in WhiteSpace

\* String.prototype.trimStart / trimEnd / trim
RECURSIVE StripStart(_)
StripStart(s) == IF s # <<>> /\ Head(s) \in WhiteSpace THEN StripStart(Tail(s)) ELSE s
RECURSIVE StripEnd(_)
StripEnd(s) ==
    IF s # <<>> /\ s[Len(s)] \in WhiteSpace THEN StripEnd(SubSeq(s, 1, Len(s) - 1)) ELSE s
Strip(s) == StripEnd(StripStart(s))

\* replace(/\s+/g, " ")
RECURSIVE CollapseWhiteSpace(_)
CollapseWhiteSpace(s) ==
    IF s = <<>> THEN <<>>
    ELSE IF Head(s) \in WhiteSpace THEN <<" ">> \o CollapseWhiteSpace(StripStart(Tail(s)))
    ELSE <<Head(s)>> \o CollapseWhiteSpace(Tail(s))

normalizeCode(code) == Strip(CollapseWhiteSpace(code))

actionsMatch(a, b) ==
    /\ Len(a) = Len(b)
    /\ \A i \in 1..Len(a) :
          /\ a[i].short = b[i].short
          /\ a[i].name = b[i].name
          /\ normalizeCode(a[i].code) = normalizeCode(b[i].code)

\* GridScript.humanize: the script laid out one statement per line
humanize(code) == [i \in 1..Len(code) |-> IF code[i] = " " THEN "\n" ELSE code[i]]

humanizeActions(actions) ==
    [i \in 1..Len(actions) |-> [actions[i] EXCEPT !.code = humanize(@)]]

\* the text before the first line break
RECURSIVE UpToNewline(_)
UpToNewline(s) ==
    IF s = <<>> \/ Head(s) = "\n" THEN <<>> ELSE <<Head(s)>> \o UpToNewline(Tail(s))

\* split("\n")
RECURSIVE SplitLines(_)
SplitLines(s) ==
    LET first == UpToNewline(s)
    IN  IF Len(first) = Len(s) THEN <<first>>
        ELSE <<first>> \o SplitLines(SubSeq(s, Len(first) + 2, Len(s)))

\* join("\n")
RECURSIVE JoinLines(_)
JoinLines(ls) ==
    IF ls = <<>> THEN <<>>
    ELSE IF Len(ls) = 1 THEN ls[1]
    ELSE ls[1] \o <<"\n">> \o JoinLines(Tail(ls))

\* `${n}` of a number 0..9, and Number(text)
NumberToString(n) == <<CHOOSE d \in DOMAIN DigitValue : DigitValue[d] = n>>

\* ---- lines ----
Line(kind, a, b) == [kind |-> kind, a |-> a, b |-> b]
\* "-- grid: key=value"
FrontMatterLine(key, value) == Line("grid", <<key>>, value)
\* "-- grid:event element=i event=name"
formatEventHeader(elementIndex, eventName) ==
    Line("grid:event", NumberToString(elementIndex), <<eventName>>)
\* "-- grid:event element=i elementType=type event=name"
TypedEventHeader(elementIndex, elementType, eventName) ==
    Line("grid:event", NumberToString(elementIndex), <<eventName, elementType>>)
\* "-- ====..." and "-- ----..."
SeparatorLine == Line("separator", <<>>, <<>>)
\* "-- action: display name (short)"
ActionCommentLine(short) == Line("action:", <<short>>, <<>>)
\* "--[[@short]]" or "--[[@short#name]]"
ActionHeaderLine(short, name) == Line("--[[@", <<short>>, <<name>>)
\* "-- All events use default configuration"
SentinelCommentLine == Line("--", <<"All events use default configuration">>, <<>>)
\* any other line
TextLine(s) == Line("text", s, <<>>)
BlankLine == TextLine(<<>>)

\* trimEnd() of lines joined with "\n"
RECURSIVE TrimEndLines(_)
TrimEndLines(lines) ==
    IF lines = <<>> THEN <<>>
    ELSE LET last == lines[Len(lines)]
             front == SubSeq(lines, 1, Len(lines) - 1)
         IN  IF last.kind # "text" THEN lines
             ELSE IF IsBlankText(last.a) THEN TrimEndLines(front)
             ELSE front \o <<TextLine(StripEnd(last.a))>>

\* the actions getActionDisplayName knows a display name for
ActionDisplayNames == {"a"}

RECURSIVE FormatActions(_, _)
FormatActions(actions, first) ==
    IF actions = <<>> THEN <<>>
    ELSE LET action == Head(actions)
             code == SplitLines(Strip(action.code))
         IN  (IF first THEN <<>> ELSE <<SeparatorLine>>)
             \o (IF action.short \in ActionDisplayNames
                 THEN <<ActionCommentLine(action.short)>> ELSE <<>>)
             \o <<ActionHeaderLine(action.short, action.name)>>
             \o [i \in 1..Len(code) |-> TextLine(code[i])]
             \o <<BlankLine>>
             \o FormatActions(Tail(actions), FALSE)

formatActionBlock(actions) == TrimEndLines(FormatActions(actions, TRUE))

\* ---- parseLuaFile ----
\* /^\s*--\[\[@([^\]]+)\]\]\s*(.*)$/ : a header with a non-empty meta
IsActionHeader(line) == line.kind = "--[[@" /\ line.a # <<"">>

IsIgnoredLine(line) == line.kind \in {"grid", "grid:event", "action:", "separator"}

IsBlankLine(line) == line.kind = "text" /\ IsBlankText(line.a)

\* the text of a line that is taken as code
LineText(line) == IF line.kind = "text" THEN line.a ELSE <<line.kind>> \o line.a

NoAction == [has |-> FALSE, short |-> "", name |-> ""]

\* "Save previous action if any": an action whose code is empty is dropped
SaveAction(st) ==
    LET code == Strip(JoinLines(st.codeLines))
    IN  IF st.current.has /\ code # <<>>
        THEN Append(st.actions,
                    [short |-> st.current.short, name |-> st.current.name, code |-> code])
        ELSE st.actions

RECURSIVE ParseLines(_, _)
ParseLines(lines, st) ==
    IF lines = <<>> THEN SaveAction(st)
    ELSE LET line == Head(lines)
             next ==
               IF IsActionHeader(line)
               THEN [actions |-> SaveAction(st),
                     current |-> [has |-> TRUE, short |-> line.a[1], name |-> line.b[1]],
                     codeLines |-> <<>>]
               ELSE IF ~st.current.has THEN st
               ELSE IF ~IsIgnoredLine(line) /\ ~IsBlankLine(line)
               THEN [st EXCEPT !.codeLines = Append(@, LineText(line))]
               ELSE IF st.codeLines # <<>> /\ IsBlankLine(line)
               THEN [st EXCEPT !.codeLines = Append(@, line.a)]
               ELSE st
         IN  ParseLines(Tail(lines), next)

parseLuaFile(lines) ==
    ParseLines(lines, [actions |-> <<>>, current |-> NoAction, codeLines |-> <<>>])

\* ---- the event descriptors (device/events.ts over the protocol library) ----
EVENT_NAMES ==
    (0 :> "init") @@ (1 :> "potmeter") @@ (2 :> "encoder") @@ (3 :> "button") @@
    (4 :> "mapmode") @@ (5 :> "midirx") @@ (6 :> "timer")

EVENT_NAME_ALIASES ==
    ("setup" :> "init") @@ ("midi rx" :> "midirx") @@ ("midirx" :> "midirx") @@
    ("utility" :> "mapmode") @@ ("map" :> "mapmode")

\* toLowerCase().replace(/[^a-z0-9]+/g, "") on the names that are not already
\* lower-case letters and digits
LowerCaseAlnum ==
    ("Setup" :> "setup") @@ ("Button" :> "button") @@ ("MIDI RX" :> "midirx") @@
    ("Endless" :> "endless")

normalizeEventName(name) ==
    IF name \in DOMAIN LowerCaseAlnum THEN LowerCaseAlnum[name] ELSE name

canonicalEventName(name) ==
    LET normalized == normalizeEventName(name)
    IN  IF normalized \in DOMAIN EVENT_NAME_ALIASES
        THEN EVENT_NAME_ALIASES[normalized] ELSE normalized

\* get_module_element_list(module.type) of the protocol library
ProtocolElements == <<"", "button">>

\* get_element_events(elementType) of the protocol library: value and desc;
\* the defaultConfig of each event is an input of a run
getElementEvents(elementType) ==
    IF elementType = "button"
    THEN << [value |-> 0, name |-> "Setup"], [value |-> 3, name |-> "Button"] >>
    ELSE IF elementType = "endless"
    THEN << [value |-> 0, name |-> "Setup"], [value |-> 3, name |-> "Button"],
            [value |-> 7, name |-> "Endless"] >>
    ELSE <<>>

getEventDescriptors(elementType, defaults) ==
    LET protocolEvents == getElementEvents(elementType)
        fallback == getSupportedEvents(elementType)
    IN  IF Len(protocolEvents) > 0
        THEN [i \in 1..Len(protocolEvents) |->
                 [name |-> canonicalEventName(protocolEvents[i].name),
                  value |-> protocolEvents[i].value,
                  defaultConfig |-> IF protocolEvents[i].value \in DOMAIN defaults
                                    THEN defaults[protocolEvents[i].value]
                                    ELSE Undefined]]
        ELSE [i \in 1..Len(fallback) |->
                 [name |-> EVENT_NAMES[fallback[i]], value |-> fallback[i],
                  defaultConfig |-> Undefined]]

getEventNameForType(elementType, eventType, defaults) ==
    LET descriptors == getEventDescriptors(elementType, defaults)
        found == {i \in 1..Len(descriptors) : descriptors[i].value = eventType}
    IN  IF found # {} THEN descriptors[CHOOSE i \in found : \A j \in found : i <= j].name
        ELSE IF eventType \in DOMAIN EVENT_NAMES THEN EVENT_NAMES[eventType]
        ELSE "?"

\* getEventTypeFromName: -1 stands for null
getEventTypeFromName(elementType, name, defaults) ==
    LET canonical == canonicalEventName(name)
        descriptors == getEventDescriptors(elementType, defaults)
        found == {i \in 1..Len(descriptors) :
                     canonicalEventName(descriptors[i].name) = canonical}
        named == {v \in DOMAIN EVENT_NAMES : canonicalEventName(EVENT_NAMES[v]) = canonical}
    IN  IF found # {} THEN descriptors[CHOOSE i \in found : \A j \in found : i <= j].value
        ELSE IF named # {} THEN CHOOSE v \in named : \A w \in named : v <= w
        ELSE -1

\* getDefaultActions: has = FALSE stands for null
getDefaultActions(elementType, eventType, defaults) ==
    LET descriptors == getEventDescriptors(elementType, defaults)
        found == {i \in 1..Len(descriptors) :
                     /\ descriptors[i].value = eventType
                     /\ Truthy(descriptors[i].defaultConfig)}
    IN  IF found = {} THEN [has |-> FALSE, actions |-> <<>>]
        ELSE [has |-> TRUE,
              actions |-> parseDeviceFormat(unwrapScript(
                  descriptors[CHOOSE i \in found : \A j \in found : j <= i]
                      .defaultConfig.v)).actions]

\* ---- writeConfig ----
EventConfig(elementIndex, eventType, actions) ==
    [elementIndex |-> elementIndex, eventType |-> eventType, actions |-> actions]

\* elementTypes: the element indices and their types
ElementTypesOf(protocolElements) ==
    [i \in {k - 1 : k \in {j \in 1..Len(protocolElements) : protocolElements[j] # ""}}
        |-> protocolElements[i + 1]]

IsWrittenUnlessEmpty(event, elementTypes, defaults) == Len(event.actions) # 0

\* the filter of page.events: not empty and not the default
IsWritten(event, elementTypes, defaults) ==
    LET defaultActions == getDefaultActions(elementTypes[event.elementIndex],
                                            event.eventType, defaults)
    IN  /\ Len(event.actions) # 0
        /\ ~(defaultActions.has /\ actionsMatch(event.actions, defaultActions.actions))

\* sort by elementIndex, then eventType
EventBefore(a, b) ==
    \/ a.elementIndex < b.elementIndex
    \/ a.elementIndex = b.elementIndex /\ a.eventType < b.eventType

RECURSIVE InsertEvent(_, _)
InsertEvent(sorted, event) ==
    IF sorted = <<>> THEN <<event>>
    ELSE IF EventBefore(event, Head(sorted)) THEN <<event>> \o sorted
    ELSE <<Head(sorted)>> \o InsertEvent(Tail(sorted), event)

RECURSIVE SortEvents(_)
SortEvents(events) ==
    IF events = <<>> THEN <<>>
    ELSE InsertEvent(SortEvents(SubSeq(events, 1, Len(events) - 1)), events[Len(events)])

RECURSIVE EventBlockLines(_, _, _, _)
EventBlockLines(eventBlocks, firstEvent, elementTypes, defaults) ==
    IF eventBlocks = <<>> THEN <<>>
    ELSE LET event == Head(eventBlocks)
             eventName == getEventNameForType(elementTypes[event.elementIndex],
                                              event.eventType, defaults)
         IN  (IF firstEvent THEN <<>> ELSE <<SeparatorLine, BlankLine>>)
             \o <<formatEventHeader(event.elementIndex, eventName)>>
             \o formatActionBlock(humanizeActions(event.actions))
             \o <<BlankLine>>
             \o EventBlockLines(Tail(eventBlocks), FALSE, elementTypes, defaults)

\* the content of page-N.lua, as the lines a reader splits it into
PageFileLines(page, eventBlocks, elementTypes, defaults) ==
    TrimEndLines(<<FrontMatterLine("page", NumberToString(page.pageNumber)), BlankLine>>
                    \o EventBlockLines(eventBlocks, TRUE, elementTypes, defaults))
        \o <<BlankLine>>

File(pageNumber, lines) == [page |-> pageNumber, lines |-> lines]

\* fs.writeFile: a file of that name is replaced
WriteFile(files, file) ==
    IF \E i \in 1..Len(files) : files[i].page = file.page
    THEN [i \in 1..Len(files) |-> IF files[i].page = file.page THEN file ELSE files[i]]
    ELSE Append(files, file)

\* the loop over config.pages: the page files and writtenPages
RECURSIVE WritePages(_, _, _, _)
WritePages(configPagesLeft, out, elementTypes, defaults) ==
    IF configPagesLeft = <<>> THEN out
    ELSE LET page == Head(configPagesLeft)
             eventBlocks == SortEvents(SelectSeq(page.events,
                                LAMBDA event : IsWritten(event, elementTypes, defaults)))
         IN  IF eventBlocks = <<>>
             THEN WritePages(Tail(configPagesLeft), out, elementTypes, defaults)
             ELSE WritePages(Tail(configPagesLeft),
                             [files |-> WriteFile(out.files,
                                           File(page.pageNumber,
                                                PageFileLines(page, eventBlocks,
                                                              elementTypes, defaults))),
                              writtenPages |-> Append(out.writtenPages, page.pageNumber)],
                             elementTypes, defaults)

RECURSIVE SortNumbers(_)
SortNumbers(seq) ==
    IF seq = <<>> THEN <<>>
    ELSE LET m == CHOOSE x \in Range(seq) : \A y \in Range(seq) : x <= y
             at == CHOOSE i \in 1..Len(seq) : seq[i] = m
         IN  <<m>> \o SortNumbers(SubSeq(seq, 1, at - 1) \o SubSeq(seq, at + 1, Len(seq)))

\* writeConfig([config], baseDir): the module directory
writeConfig(config, defaults) ==
    LET elementTypes == ElementTypesOf(ProtocolElements)
        written == WritePages(config, [files |-> <<>>, writtenPages |-> <<>>],
                              elementTypes, defaults)
        out == IF written.writtenPages = <<>>
               THEN [files |-> <<File(0, <<FrontMatterLine("page", <<"0">>), BlankLine,
                                           SentinelCommentLine, BlankLine>>)>>,
                     writtenPages |-> <<0>>]
               ELSE written
    IN  [files |-> out.files,
         manifest |-> [elements |-> [i \in 1..Len(Ascending(DOMAIN elementTypes)) |->
                                        [index |-> Ascending(DOMAIN elementTypes)[i],
                                         type |-> elementTypes[Ascending(DOMAIN elementTypes)[i]]]],
                       pages |-> SortNumbers(out.writtenPages)]]

\* ---- readConfig ----
\* parseFrontMatter: the value of "page", <<>> when there is none
RECURSIVE parseFrontMatter(_, _)
parseFrontMatter(lines, result) ==
    IF lines = <<>> \/ Head(lines).kind = "grid:event" THEN result
    ELSE IF Head(lines).kind = "grid" /\ Head(lines).a = <<"page">>
    THEN parseFrontMatter(Tail(lines), Strip(Head(lines).b))
    ELSE parseFrontMatter(Tail(lines), result)

NoMeta == [has |-> FALSE, elementIndex |-> 0, elementType |-> "", eventName |-> ""]

\* flushBlock
flushBlock(st) ==
    IF ~st.currentMeta.has THEN st.events
    ELSE Append(st.events,
                [elementIndex |-> st.currentMeta.elementIndex,
                 elementType |-> st.currentMeta.elementType,
                 eventName |-> st.currentMeta.eventName,
                 actions |-> parseLuaFile(st.blockLines)])

RECURSIVE ReadBlocks(_, _)
ReadBlocks(lines, st) ==
    IF lines = <<>> THEN flushBlock(st)
    ELSE LET line == Head(lines)
             next ==
               IF line.kind = "grid:event"
               THEN [events |-> flushBlock(st),
                     currentMeta |-> [has |-> TRUE,
                                      elementIndex |-> StringToNumber(line.a).v,
                                      elementType |-> IF Len(line.b) > 1 THEN line.b[2]
                                                      ELSE "",
                                      eventName |-> line.b[1]],
                     blockLines |-> <<>>]
               ELSE IF st.currentMeta.has
               THEN [st EXCEPT !.blockLines = Append(@, line)]
               ELSE st
         IN  ReadBlocks(Tail(lines), next)

\* readPageFile: the page number (front-matter, else the file name) and the
\* event blocks
readPageFile(file) ==
    LET frontMatterPage == parseFrontMatter(file.lines, <<>>)
    IN  [pageNumber |-> IF frontMatterPage # <<>> /\ StringToNumber(frontMatterPage).finite
                        THEN StringToNumber(frontMatterPage).v
                        ELSE file.page,
         events |-> ReadBlocks(file.lines,
                               [events |-> <<>>, currentMeta |-> NoMeta, blockLines |-> <<>>])]

\* the overrides of the page files: (page, element, event type, actions),
\* a later entry replacing an earlier one
RECURSIVE PageOverrides(_, _, _, _)
PageOverrides(pageNumber, events, elementTypes, defaults) ==
    IF events = <<>> THEN <<>>
    ELSE LET eventMeta == Head(events)
             rest == PageOverrides(pageNumber, Tail(events), elementTypes, defaults)
             moduleElementType == elementTypes[eventMeta.elementIndex]
             elementType == IF eventMeta.elementType # "" THEN eventMeta.elementType
                            ELSE moduleElementType
             eventType == getEventTypeFromName(elementType, eventMeta.eventName, defaults)
         IN  IF eventMeta.elementIndex \notin DOMAIN elementTypes THEN rest
             ELSE IF eventType = -1 THEN rest
             ELSE <<[page |-> pageNumber, elementIndex |-> eventMeta.elementIndex,
                     eventType |-> eventType, actions |-> eventMeta.actions]>> \o rest

RECURSIVE AllOverrides(_, _, _)
AllOverrides(files, elementTypes, defaults) ==
    IF files = <<>> THEN <<>>
    ELSE LET pageData == readPageFile(Head(files))
         IN  PageOverrides(pageData.pageNumber, pageData.events, elementTypes, defaults)
                \o AllOverrides(Tail(files), elementTypes, defaults)

ResolveWithoutDefault(override, defaultActions) ==
    IF override.has THEN override.actions ELSE <<>>

\* elementOverrides?.get(descriptor.value) ?? defaultActions ?? []
ResolveActions(override, defaultActions) ==
    IF override.has THEN override.actions
    ELSE IF defaultActions.has THEN defaultActions.actions
    ELSE <<>>

OverrideAt(overrides, pageNumber, elementIndex, eventType) ==
    LET found == {i \in 1..Len(overrides) :
                     /\ overrides[i].page = pageNumber
                     /\ overrides[i].elementIndex = elementIndex
                     /\ overrides[i].eventType = eventType}
    IN  IF found = {} THEN [has |-> FALSE, actions |-> <<>>]
        ELSE [has |-> TRUE,
              actions |-> overrides[CHOOSE i \in found : \A j \in found : j <= i].actions]

\* the events of a page that is read: every element, every descriptor
ReadEvents(pageNumber, elementIndices, elementTypes, overrides, defaults) ==
    Flatten([e \in 1..Len(elementIndices) |->
        LET elementIndex == elementIndices[e]
            descriptors == getEventDescriptors(elementTypes[elementIndex], defaults)
        IN  [d \in 1..Len(descriptors) |->
                EventConfig(elementIndex, descriptors[d].value,
                            ResolveActions(
                                OverrideAt(overrides, pageNumber, elementIndex,
                                           descriptors[d].value),
                                getDefaultActions(elementTypes[elementIndex],
                                                  descriptors[d].value, defaults)))]])

\* readConfig(baseDir): the pages of the module
readConfig(dir, defaults) ==
    LET elementTypes == [i \in {dir.manifest.elements[k].index :
                                   k \in 1..Len(dir.manifest.elements)} |->
                            LET k == CHOOSE k \in 1..Len(dir.manifest.elements) :
                                        dir.manifest.elements[k].index = i
                            IN  dir.manifest.elements[k].type]
        overrides == AllOverrides(dir.files, elementTypes, defaults)
        pagesFromFiles == {readPageFile(dir.files[i]).pageNumber : i \in 1..Len(dir.files)}
        pageSet == Range(dir.manifest.pages) \cup pagesFromFiles
        sortedPages == Ascending(pageSet)
        elementIndices == Ascending(DOMAIN elementTypes)
    IN  [i \in 1..Len(sortedPages) |->
            Page(sortedPages[i],
                 ReadEvents(sortedPages[i], elementIndices, elementTypes,
                            overrides, defaults))]

\* ---- what fetchModuleConfig returns ----
\* the scripts an event holds on the device
EventScripts ==
    { <<>>,
      <<"--[[@a]]", "x">>,
      <<"--[[@b#n]]", "x", " ", "y">>,
      <<"--[[@a]]", "x", " ", "--[[@b#n]]", "y">>,
      <<"--[[@a]]">> }

\* the action lists fetchEventConfig returns for them
FetchedActions == {parseDeviceFormat(script).actions : script \in EventScripts}

\* the defaultConfig of an event in the protocol library: none, or a script
DefaultConfigs == {Undefined, Str(wrapScript(<<"--[[@a]]", "x">>))}

\* the (element, event type) pairs fetchModuleConfig visits on a page
FetchedEvents(defaults) ==
    LET elementTypes == ElementTypesOf(ProtocolElements)
        elementIndices == Ascending(DOMAIN elementTypes)
    IN  Flatten([e \in 1..Len(elementIndices) |->
            LET descriptors == getEventDescriptors(elementTypes[elementIndices[e]], defaults)
            IN  [d \in 1..Len(descriptors) |->
                    [elementIndex |-> elementIndices[e], eventType |-> descriptors[d].value]]])

FetchedPages(pageNumber, defaults) ==
    LET slots == FetchedEvents(defaults)
    IN  {Page(pageNumber,
              [i \in 1..Len(slots) |->
                  EventConfig(slots[i].elementIndex, slots[i].eventType, actions[i])])
            : actions \in [1..Len(slots) -> FetchedActions]}

RECURSIVE FetchedConfigs(_, _)
FetchedConfigs(pageNumbersLeft, defaults) ==
    IF pageNumbersLeft = <<>> THEN {<<>>}
    ELSE {<<page>> \o rest :
            page \in FetchedPages(Head(pageNumbersLeft), defaults),
            rest \in FetchedConfigs(Tail(pageNumbersLeft), defaults)}

NoDir == [files |-> <<>>, manifest |-> [elements |-> <<>>, pages |-> <<>>]]

CodecIdle ==
    /\ codecConfig = <<>>
    /\ codecDefaults = [v \in {0, 3} |-> Undefined]
    /\ codecDir = NoDir
    /\ readBack = <<>>
    /\ writtenAgain = NoDir
    /\ codecPc = "idle"

\* a configuration fetched from the device, and the library's defaults
CodecInit ==
    /\ codecDefaults \in [{0, 3} -> DefaultConfigs]
    /\ \E selected \in SUBSET (0..(MaxConfigPages - 1)) :
          codecConfig \in FetchedConfigs(Ascending(selected), codecDefaults)
    /\ codecDir = NoDir
    /\ readBack = <<>>
    /\ writtenAgain = NoDir
    /\ codecPc = "fetched"

\* writeConfig([config], baseDir)
WriteConfigCall ==
    /\ codecPc = "fetched"
    /\ codecDir' = writeConfig(codecConfig, codecDefaults)
    /\ codecPc' = "written"
    /\ UNCHANGED <<codecConfig, codecDefaults, readBack, writtenAgain>>
    /\ UNCHANGED notCodec

\* readConfig(baseDir)
ReadConfigCall ==
    /\ codecPc = "written"
    /\ readBack' = readConfig(codecDir, codecDefaults)
    /\ codecPc' = "read"
    /\ UNCHANGED <<codecConfig, codecDefaults, codecDir, writtenAgain>>
    /\ UNCHANGED notCodec

\* writeConfig([config], otherDir) of the configuration read back
WriteAgainCall ==
    /\ codecPc = "read"
    /\ writtenAgain' = writeConfig(readBack, codecDefaults)
    /\ codecPc' = "rewritten"
    /\ UNCHANGED <<codecConfig, codecDefaults, codecDir, readBack>>
    /\ UNCHANGED notCodec

\* ---- a directory the user made or edited ----
\* page-N.lua with the front-matter "page=M", or without a page
UserFiles ==
    { File(n, <<FrontMatterLine("page", NumberToString(m)), BlankLine>>) :
        n \in {0, MaxPageArg}, m \in {1, MaxPageArg} }
    \cup { File(n, <<BlankLine>>) : n \in {0, MaxPageArg} }

\* one page file with one event block whose header names an element type
TypedDirs ==
    { [files |-> <<File(0, <<FrontMatterLine("page", <<"0">>), BlankLine,
                             TypedEventHeader(1, fileType, eventName),
                             ActionHeaderLine("a", ""), TextLine(<<"x">>), BlankLine>>)>>,
       manifest |-> [elements |-> <<[index |-> 1, type |-> manifestType]>>, pages |-> <<0>>]] :
        fileType \in {"", "button", "endless"}, eventName \in {"button", "endless"},
        manifestType \in {"button", "endless"} }

PageDirs ==
    { [files |-> files,
       manifest |-> [elements |-> <<[index |-> 1, type |-> "button"]>>, pages |-> declared]] :
        files \in {<<>>} \cup {<<f>> : f \in UserFiles}
                  \cup {<<f, g>> : <<f, g>> \in {x \in UserFiles \X UserFiles : x[1].page < x[2].page}},
        declared \in {<<>>, <<0>>, <<2>>, <<0, MaxPageArg>>} }

UserDirs == PageDirs \cup TypedDirs

\* if (pageSet.size === 0) throw new ConfigError
NoPageFound(dir) == dir.manifest.pages = <<>> /\ dir.files = <<>>

\* readConfig(baseDir) of a directory that writeConfig did not write, in a
\* run of the push command
ReadDirCall ==
    /\ command = "none"
    /\ codecPc = "idle"
    /\ \E dir \in UserDirs :
          /\ codecDir' = dir
          /\ IF NoPageFound(dir)
             THEN codecPc' = "error" /\ UNCHANGED readBack
             ELSE codecPc' = "read" /\ readBack' = readConfig(dir, codecDefaults)
    /\ UNCHANGED <<codecConfig, codecDefaults, writtenAgain>>
    /\ UNCHANGED notCodec

\* the page numbers of pull and of readConfig
PagesNext ==
    \/ (codecPc = "idle" /\ PullCommandCall)
    \/ (codecPc = "idle" /\ FetchEventResult)
    \/ ReadDirCall

CodecNext ==
    \/ WriteConfigCall
    \/ ReadConfigCall
    \/ WriteAgainCall

(***************************************************************************)
(* fetchModuleConfig with the events it returns (unnamed/part_003)         *)
(***************************************************************************)
\* the most events of one fetchModuleConfig in the runs that keep the events
MaxFetchEvents == 10

\* the module types and the page options of these runs
FetchModuleTypes == {"KNOT", "TEK2"}
FetchPageOptions == {NoPages} \cup [given : {TRUE}, pages : {{0}, {1, 3}, {0, 1, 2}}]

\* what one fetchEventConfig returns: a failure (no action), a stored
\* configuration without actions, a stored configuration with an action
FetchResults ==
    { [actions |-> <<>>, failed |-> TRUE],
      [actions |-> <<>>, failed |-> FALSE],
      [actions |-> <<"action">>, failed |-> FALSE] }

\* "pages.push({ pageNumber: page, events })"
PageConfig(pageNumber, events) == [pageNumber |-> pageNumber, events |-> events]

\* the element the loop "for (const element of elementIndices)" is at
ElementAt(type, at) == getElementIndices(type)[at.element]

\* the supported events of that element
SupportedEventsAt(type, at) == getSupportedEvents(getElementType(type, ElementAt(type, at)))

EventsPushUnlessFailed(events, element, eventType, result) ==
    IF result.failed
    THEN events
    ELSE Append(events, EventConfig(element, eventType, result.actions))

\* "events.push({ elementIndex: element, eventType, actions: result.actions })"
EventsPush(events, element, eventType, result) ==
    Append(events, EventConfig(element, eventType, result.actions))

\* pullCommand up to the first fetchEventConfig of fetchModuleConfig:
\* "const pages = []", the loops at their start
FetchModuleCall ==
    /\ pc = "idle"
    /\ \E type \in FetchModuleTypes, include \in FetchPageOptions, exclude \in FetchPageOptions :
          /\ eventsPerPage(type) * Len(FilterPages(AllPages, include, exclude)) <= MaxFetchEvents
          /\ PullModule(type, include, exclude)
    /\ fetchedPages' = <<>>
    /\ fetchedEvents' = <<>>
    /\ fetchAt' = FetchStart
    /\ UNCHANGED notFetch

\* fetchModuleConfig from the return of one fetchEventConfig to the next
\* call: the failure test and its throw, the push of the event, the end of
\* the two inner loops and the push of the page
FetchModuleEvent ==
    /\ pc = "fetching"
    /\ \E result \in FetchResults :
        LET element == ElementAt(moduleType, fetchAt)
            supportedEvents == SupportedEventsAt(moduleType, fetchAt)
            eventType == supportedEvents[fetchAt.event]
            events == EventsPush(fetchedEvents, element, eventType, result)
            lastEvent == fetchAt.event = Len(supportedEvents)
            lastElement == fetchAt.element = Len(getElementIndices(moduleType))
            page == pageNumbers[Len(fetchedPages) + 1]
        IN /\ FetchEventReturns(result.failed)
           /\ IF pc' = "error"
              THEN UNCHANGED fetchVars
              ELSE IF lastEvent /\ lastElement
              THEN /\ fetchedPages' = Append(fetchedPages, PageConfig(page, events))
                   /\ fetchedEvents' = <<>>
                   /\ fetchAt' = FetchStart
              ELSE /\ fetchedEvents' = events
                   /\ fetchAt' = IF lastEvent
                                 THEN [element |-> fetchAt.element + 1, event |-> 1]
                                 ELSE [fetchAt EXCEPT !.event = @ + 1]
                   /\ UNCHANGED fetchedPages
    /\ UNCHANGED notFetch

FetchNext ==
    \/ FetchModuleCall
    \/ FetchModuleEvent

(***************************************************************************)
(* Specifications                                                          *)
(***************************************************************************)
InitFramer == FramerInit /\ FilterIdle /\ TransferInit /\ FetchIdle /\ LinkInit /\ DeviceInit /\ CodecIdle /\ SessionIdle /\ PushIdle
SpecFramer == InitFramer /\ [][FramerNext]_vars

InitStream == StreamInit /\ FilterIdle /\ TransferInit /\ FetchIdle /\ LinkInit /\ DeviceInit /\ CodecIdle /\ SessionIdle /\ PushIdle
SpecStream == InitStream /\ [][FramerNext]_vars

InitFilter == FramerIdle /\ FilterInit /\ TransferInit /\ FetchIdle /\ LinkInit /\ DeviceInit /\ CodecIdle /\ SessionIdle /\ PushIdle
SpecFilter == InitFilter /\ [][FilterNext]_vars

InitTransfer == FramerIdle /\ FilterIdle /\ TransferInit /\ FetchIdle /\ LinkInit /\ DeviceInit /\ CodecIdle /\ SessionIdle /\ PushIdle
SpecTransfer == InitTransfer /\ [][TransferNext]_vars

InitLink == FramerIdle /\ FilterIdle /\ TransferInit /\ FetchIdle /\ LinkInit /\ DeviceInit /\ CodecIdle /\ SessionIdle /\ PushIdle
SpecLink == InitLink /\ [][LinkNext]_vars

InitDevice == FramerIdle /\ FilterIdle /\ TransferInit /\ FetchIdle /\ LinkInit /\ DeviceInit /\ CodecIdle /\ SessionIdle /\ PushIdle
SpecDevice == InitDevice /\ [][DeviceNext]_vars

InitConcurrent == FramerIdle /\ FilterIdle /\ TransferInit /\ FetchIdle /\ LinkInit /\ DeviceInit /\ CodecIdle /\ SessionIdle /\ PushIdle
SpecConcurrent == InitConcurrent /\ [][ConcurrentNext]_vars

InitDiscovery == FramerIdle /\ FilterIdle /\ TransferInit /\ FetchIdle /\ LinkInit /\ DeviceInit /\ CodecIdle /\ SessionIdle /\ PushIdle
SpecDiscovery == InitDiscovery /\ [][DiscoveryNext]_vars

InitShutdown == FramerIdle /\ FilterIdle /\ TransferInit /\ FetchIdle /\ ShutdownInit /\ CodecIdle /\ PushIdle
SpecShutdown == InitShutdown /\ [][ShutdownNext]_vars

InitWait == FramerIdle /\ FilterIdle /\ TransferInit /\ FetchIdle /\ LinkInit /\ DeviceInit /\ CodecIdle /\ SessionIdle /\ PushIdle
SpecWait == InitWait /\ [][WaitNext]_vars

InitPush == FramerIdle /\ FilterIdle /\ TransferInit /\ FetchIdle /\ LinkInit /\ DeviceInit /\ CodecIdle /\ SessionIdle /\ PushIdle
SpecPush == InitPush /\ [][PushNext]_vars

InitPages == FramerIdle /\ FilterIdle /\ TransferInit /\ FetchIdle /\ LinkInit /\ DeviceInit /\ CodecIdle /\ SessionIdle /\ PushIdle
SpecPages == InitPages /\ [][PagesNext]_vars

InitPageList == FramerIdle /\ FilterIdle /\ TransferInit /\ FetchIdle /\ LinkInit /\ DeviceInit /\ CodecIdle /\ SessionIdle
                    /\ PageListInit /\ pushPc = "idle" /\ pushConfig = <<>> /\ pushErrors = <<>>
                    /\ pushThrown = "" /\ pushDevice = NoDevice
                    /\ pushOpts = [dryRun |-> FALSE, clear |-> FALSE, noStore |-> FALSE]
SpecPageList == InitPageList /\ [][ParsePageListCall]_vars

InitFetch == FramerIdle /\ FilterIdle /\ TransferInit /\ FetchIdle /\ LinkInit /\ DeviceInit /\ CodecIdle /\ SessionIdle /\ PushIdle
SpecFetch == InitFetch /\ [][FetchNext]_vars

InitCodec == FramerIdle /\ FilterIdle /\ TransferInit /\ FetchIdle /\ LinkInit /\ DeviceInit /\ CodecInit /\ SessionIdle /\ PushIdle
SpecCodec == InitCodec /\ [][CodecNext]_vars

(***************************************************************************)
(* C5  Filter numeric equivalence                                          *)
(***************************************************************************)
\* A numeric string: after trimming it is not empty and it denotes a number.
IsNumericString(s) == Trim(s) # <<>> /\ StringToNumber(s).finite

\* The same value: identical, or a number and a numeric string of that value
\* (either way round).
SameValue(a, b) ==
    \/ a = b
    \/ a.t = "number" /\ b.t = "string" /\ IsNumericString(b.v)
          /\ StringToNumber(b.v).v = a.v
    \/ a.t = "string" /\ b.t = "number" /\ IsNumericString(a.v)
          /\ StringToNumber(a.v).v = b.v

\* C5: matchesFilter matches exactly when the class name and instruction
\* agree and every compared parameter of brc_parameters and class_parameters
\* has the same value in the message and in the filter, a number and the
\* numeric string of the same value being equal in both directions; a
\* message differing in any compared value does not match.
C5_NumericEquivalence ==
    mfResult \in {"match", "nomatch"} =>
        ((mfResult = "match") <=>
            /\ \A key \in DOMAIN mfFilter.brc :
                  SameValue(mfMessage.brc[key], mfFilter.brc[key])
            /\ mfFilter.class_name \in {"", mfMessage.class_name}
            /\ mfFilter.class_instr \in {"", mfMessage.class_instr}
            /\ \A key \in DOMAIN mfFilter.cls :
                  mfFilter.cls[key] # Null
                      => SameValue(mfMessage.cls[key], mfFilter.cls[key]))

\* The test's case: integers in the filter, strings in the message, a match.
C5_Witness ==
    /\ mfMessage = TestMessage
    /\ mfFilter = TestFilter
    /\ mfResult = "match"

(***************************************************************************)
(* C1  Framer reassembly                                                   *)
(***************************************************************************)
\* A payload's frame is delimited only at its end: no newline inside the
\* payload stands three positions after an EOT.
UniquelyDelimited(p) == \A i \in 4..Len(p) : ~(p[i] = NEWLINE /\ p[i - 3] = EOT)

StrictlyAscending(seq) == \A i, j \in 1..Len(seq) : i < j => seq[i] < seq[j]

\* the page set the law names, over the available pages
LawPages(available) ==
    IF includePages.given
    THEN includePages.pages \cap available
    ELSE available \ excludePages.pages

\* C6: when exactly one of include/exclude is set, a fetchModuleConfig that
\* returns has fetched exactly include restricted to pages 0..3 (include
\* set) or pages 0..3 minus exclude (exclude set), visiting the pages in
\* ascending order, and a pushCommand that completes has sent exactly include
\* restricted to the config's pages, or the config's pages minus exclude.
C6_PageFilterLaw ==
    /\ command = "pull" => StrictlyAscending(pages)
    /\ (pc = "done" /\ includePages.given # excludePages.given) =>
          /\ command = "pull" => Range(pages) = LawPages(0..3)
          /\ command = "push" => Range(pages) = LawPages(Range(configPages))

\* A fetch with an exclude set naming a page of the device and a page beyond
\* it has returned two or more pages.
C6_Witness ==
    /\ command = "pull"
    /\ pc = "done"
    /\ excludePages.given
    /\ excludePages.pages = {1, 4}
    /\ pages = <<0, 2, 3>>

(***************************************************************************)
(* C10  Fetch instability threshold                                        *)
(***************************************************************************)
\* max(5, floor(0.1 * total)), total counted over the selected pages
FailureBound ==
    LET total == eventsPerPage(moduleType) * Len(pageNumbers)
        tenth == CHOOSE k \in 0..total : 10 * k <= total /\ total < 10 * (k + 1)
    IN IF tenth > 5 THEN tenth ELSE 5

\* C10: fetchModuleConfig has thrown its ProtocolError exactly when the
\* number of failed event fetches exceeds max(5, floor(0.1 * total)), it
\* throws at the first failure beyond that bound, and it returns a
\* ModuleConfig only with a failed count at or below the bound.
C10_InstabilityThreshold ==
    command = "pull" /\ ~(includePages.given /\ excludePages.given) =>
        /\ (pc = "error" /\ thrown = "ProtocolError") <=> failedCount > FailureBound
        /\ failedCount <= FailureBound + 1
        /\ pc = "done" => failedCount <= FailureBound

\* An abort in the ten-percent regime (bound above 5), at the first failure
\* beyond the bound.
C10_Witness ==
    /\ command = "pull"
    /\ pc = "error"
    /\ thrown = "ProtocolError"
    /\ FailureBound > 5
    /\ failedCount = FailureBound + 1

(***************************************************************************)
(* C4  Waiter cancellation on Link close                                   *)
(***************************************************************************)
\* C4: in every reachable state in which waitForMessage waiters are
\* registered, a call of close() rejects every one of them with the
\* cancellation error during that call and leaves the waiter list empty.
C4_CloseCancelsWaiters ==
    [][closeCalls' = closeCalls + 1 =>
          /\ \A w \in Range(connWaiters) : connWaiterState'[w] = "cancelled"
          /\ connWaiters' = <<>>]_vars

\* Two registered waiters rejected by one close() of an open connection.
C4_Witness ==
    /\ closeCalls = 1
    /\ connWaiters = <<>>
    /\ connWaiterState[1] = "cancelled"
    /\ connWaiterState[2] = "cancelled"

(***************************************************************************)
(* C3  Retry budget of a fetch                                             *)
(***************************************************************************)
FetchDone(t) == task[t].op = "fetch" /\ task[t].pc = "done"

\* the last request of the fetch of task t was written and answered
Answered(t) == task[t].waiter.settled = "resolved" /\ task[t].error # "ConnectionError"

\* the ACTIONSTRING of the answer
AnsweredWith(t) == task[t].waiter.message.cls["ACTIONSTRING"]

\* the ACTIONSTRING is a script the parser accepts
ParsableScript(value) ==
    value.t = "string" /\ ~parseDeviceFormat(unwrapScript(value.v)).threw

\* C3 as claimed: a fetchEventConfig whose first request times out and whose
\* retried request is answered resolves with the reported actions, and one
\* whose request times out twice raises Timeout to its caller.
C3_Claimed ==
    \A t \in Tasks : FetchDone(t) =>
        /\ (task[t].timedOut = 1 /\ Answered(t) /\ ParsableScript(AnsweredWith(t)))
              => /\ task[t].outcome = "returned"
                 /\ ~task[t].result.failed
        /\ task[t].timedOut = 2
              => /\ task[t].outcome = "thrown"
                 /\ task[t].error = "TimeoutError"

\* C3 as amended: a fetchEventConfig whose first request times out and whose
\* retried request is answered with a script resolves with the actions
\* parsed from it and failed = false; a fetchEventConfig gives up on a
\* timeout only at the second one, and then it returns an empty action list
\* with failed = true: it never raises an error to its caller.
C3_RetryBudget ==
    \A t \in Tasks : FetchDone(t) =>
        /\ task[t].outcome = "returned"
        /\ (task[t].timedOut = 1 /\ Answered(t) /\ ParsableScript(AnsweredWith(t)))
              => task[t].result =
                    [actions |-> parseDeviceFormat(unwrapScript(AnsweredWith(t).v)).actions,
                     failed |-> FALSE]
        /\ task[t].error = "TimeoutError" => task[t].timedOut = 2
        /\ task[t].timedOut = 2
              => task[t].result = [actions |-> <<>>, failed |-> TRUE]

\* A fetch that timed out once was answered at its retry and has returned
\* the two actions of the script.
C3_Witness ==
    \E t \in Tasks :
        /\ FetchDone(t)
        /\ task[t].timedOut = 1
        /\ Answered(t)
        /\ Len(task[t].result.actions) = 2
        /\ ~task[t].result.failed

(***************************************************************************)
(* C9  fetchEventConfig failure value                                      *)
(***************************************************************************)
\* C9: fetchEventConfig returns an empty action list with failed = true
\* whenever the response has no ACTIONSTRING, or an ACTIONSTRING that is not
\* a string, or no response was obtained within the retries; it returns
\* failed = false only when a response with a string ACTIONSTRING was
\* received and parsed.
C9_FailureValue ==
    \A t \in Tasks : FetchDone(t) =>
        LET answered == Answered(t)
            failure == [actions |-> <<>>, failed |-> TRUE]
        IN  /\ (answered /\ AnsweredWith(t).t # "string") => task[t].result = failure
            /\ ~answered => task[t].result = failure
            /\ ~task[t].result.failed => (answered /\ ParsableScript(AnsweredWith(t)))

\* A fetch answered by a CONFIG/REPORT without ACTIONSTRING has returned.
C9_Witness ==
    \E t \in Tasks :
        /\ FetchDone(t)
        /\ Answered(t)
        /\ AnsweredWith(t) = Undefined
        /\ task[t].outcome = "returned"

(***************************************************************************)
(* C7  Page switch before send                                             *)
(***************************************************************************)
\* task t has written, or is about to write, a CONFIG/EXECUTE
Executing(t) ==
    /\ task[t].op = "send"
    /\ task[t].req.class_name = "CONFIG"
    /\ task[t].req.class_instr = "EXECUTE"

\* the change-page request for the page of the EXECUTE was answered by a
\* PAGEACTIVE/REPORT naming that page
PageConfirmed(t) ==
    /\ task[t].pageReport.class_name = "PAGEACTIVE"
    /\ task[t].pageReport.class_instr = "REPORT"
    /\ valuesEqual(task[t].pageReport.cls["PAGENUMBER"], Num(task[t].req.page))

\* C7 as claimed: for every page of the config, page 0 included, no
\* CONFIG/EXECUTE for the page is written before the PAGEACTIVE/REPORT for
\* that page was received.
C7_Claimed ==
    \A t \in Tasks : Executing(t) => PageConfirmed(t)

\* C7 as amended: for every page of the config other than page 0, no
\* CONFIG/EXECUTE for the page is written before a PAGEACTIVE/REPORT naming
\* that page was received in answer to a change-page request for it.
C7_PageSwitchBeforeSend ==
    \A t \in Tasks : (Executing(t) /\ task[t].req.page > 0) => PageConfirmed(t)

\* The second page of a two-page config is being sent after its
\* confirmation (the page number reported as a numeric string).
C7_Witness ==
    \E t \in Tasks :
        /\ Executing(t)
        /\ task[t].pageIdx = 2
        /\ task[t].req.page = 1
        /\ task[t].pc = "wait"
        /\ task[t].pageReport = PageActiveReport(Str(<<"1">>))

(***************************************************************************)
(* C8  Correlator fan-out                                                  *)
(***************************************************************************)
\* the positions of the frame's messages that the filter of entry e matches
MatchesAt(frame, e) ==
    {k \in 1..Len(frame) : matchesFilter(frame[k], task[e.task].req.filter)}

FirstOf(S) == CHOOSE k \in S : \A j \in S : k <= j

Position(seq, x) == CHOOSE i \in 1..Len(seq) : seq[i] = x

\* a HEARTBEAT whose position and hardware configuration are numbers
NumericHeartbeat(message) ==
    /\ message.class_name = "HEARTBEAT"
    /\ message.brc["SX"].t = "number"
    /\ message.brc["SY"].t = "number"
    /\ message.cls["HWCFG"].t = "number"

\* what the law says of the delivery of one frame of decoded messages
FanOut(frame) ==
    /\ \A i \in 1..Len(pendingWaiters) :
          LET e == pendingWaiters[i]
          IN  IF ~Unsettled(task, e)
              THEN e \in Range(pendingWaiters')
              ELSE IF MatchesAt(frame, e) = {}
              THEN /\ e \in Range(pendingWaiters')
                   /\ task'[e.task].waiter.settled = "no"
              ELSE /\ e \notin Range(pendingWaiters')
                   /\ task'[e.task].waiter =
                         [settled |-> "resolved",
                          message |-> frame[FirstOf(MatchesAt(frame, e))]]
    /\ \A i \in 1..Len(pendingWaiters') : pendingWaiters'[i] \in Range(pendingWaiters)
    /\ \A t \in Tasks :
          (task[t].pc = "wait" /\ task[t].waiter.settled = "no"
              /\ task'[t].waiter.settled = "resolved") => t \in Range(ready')
    /\ \A p, q \in 1..Len(ready') : p < q =>
          LET a == Entry(ready'[p], task[ready'[p]].attempt)
              b == Entry(ready'[q], task[ready'[q]].attempt)
          IN  \/ FirstOf(MatchesAt(frame, a)) < FirstOf(MatchesAt(frame, b))
              \/ /\ FirstOf(MatchesAt(frame, a)) = FirstOf(MatchesAt(frame, b))
                 /\ Position(pendingWaiters, a) > Position(pendingWaiters, b)
    /\ \A k \in 1..Len(frame) : NumericHeartbeat(frame[k]) =>
          \E j \in 1..Len(modules') :
              /\ modules'[j].dx = frame[k].brc["SX"].v
              /\ modules'[j].dy = frame[k].brc["SY"].v
              /\ modules'[j].typeId = frame[k].cls["HWCFG"].v

\* C8: when decoded messages arrive at the Device, every pending (registered
\* and unsettled) waiter whose filter matches a message is resolved with the
\* first such message and removed from pendingWaiters, the waiters being
\* visited from the newest to the oldest; every waiter that matches none
\* stays pending and registered; and the inventory holds the module of a
\* HEARTBEAT by the time the waiters resolved in that delivery are resumed.
C8_FanOut ==
    [][\A frame \in ConcurrentFrames :
          (ready = <<>> /\ ~closing /\ Deliver(frame)) => FanOut(frame)]_vars

\* Two waiters resolved by the same message, the newer to be resumed first.
C8_Witness ==
    /\ ready = <<2, 1>>
    /\ pendingWaiters = <<>>
    /\ task[1].waiter.settled = "resolved"
    /\ task[2].waiter = task[1].waiter

(***************************************************************************)
(* C2  round trip of a fetched configuration through the files             *)
(***************************************************************************)
PageNumbersOf(config) == [i \in 1..Len(config) |-> config[i].pageNumber]

EventKeys(page) ==
    {<<page.events[i].elementIndex, page.events[i].eventType>> : i \in 1..Len(page.events)}

\* the page holds the same (element, event type) pairs with the same actions,
\* script bodies compared after whitespace normalisation
SamePage(fetched, read) ==
    /\ fetched.pageNumber = read.pageNumber
    /\ EventKeys(fetched) = EventKeys(read)
    /\ \A i \in 1..Len(fetched.events), j \in 1..Len(read.events) :
          (/\ fetched.events[i].elementIndex = read.events[j].elementIndex
           /\ fetched.events[i].eventType = read.events[j].eventType)
             => actionsMatch(fetched.events[i].actions, read.events[j].actions)

\* C2: once readConfig has read what writeConfig wrote for a fetched
\* configuration C, the pages read are the pages of C and every (page,
\* element, event type) has the action list it has in C, script bodies
\* compared after whitespace normalisation.
C2_RoundTrip ==
    codecPc = "read" =>
        /\ PageNumbersOf(readBack) = PageNumbersOf(codecConfig)
        /\ \A i \in 1..Len(codecConfig) : SamePage(codecConfig[i], readBack[i])

\* A configuration whose page 0 holds a configured event next to an event
\* bound to nothing, for which the library has a default, has been written
\* and read back.
C2_Witness ==
    /\ codecPc = "read"
    /\ PageNumbersOf(codecConfig) = <<0>>
    /\ PageNumbersOf(readBack) = <<0>>
    /\ Truthy(codecDefaults[3])
    /\ \E i, j \in 1..Len(codecConfig[1].events) :
          /\ codecConfig[1].events[i].eventType = 0
          /\ Len(codecConfig[1].events[i].actions) = 2
          /\ codecConfig[1].events[j].eventType = 3
          /\ codecConfig[1].events[j].actions = <<>>
    /\ \E j \in 1..Len(readBack[1].events) :
          /\ readBack[1].events[j].eventType = 3
          /\ readBack[1].events[j].actions # <<>>

(***************************************************************************)
(* C11  Retry counts per operation                                         *)
(***************************************************************************)
\* the most writes of one request, by the kind of the request
MaxWrites(req) ==
    CASE req.class_name = "CONFIG" /\ req.class_instr = "FETCH" -> 2
      [] req.class_name = "CONFIG" /\ req.class_instr = "EXECUTE" -> 3
      [] req.class_name = "PAGESTORE" -> 2
      [] req.class_name = "NVMERASE" -> 1
      [] req.class_name = "PAGEACTIVE" -> 1
      [] OTHER -> 0

\* task t is inside sendAndWait
InSendAndWait(t) == task[t].pc \in {"write", "wait", "delay"}

\* the waiter task t awaits has timed out and sendAndWait goes on from there
TimeoutSurfacing(t) ==
    /\ ready # <<>>
    /\ Head(ready) = t
    /\ task[t].pc = "wait"
    /\ task[t].waiter.settled = "timeout"

\* C11: a request is written at most 2 times for a fetch, 3 times for a
\* CONFIG/EXECUTE, 2 times for a PAGESTORE and once for an NVMERASE and for
\* a change-page attempt; sendAndWait gives up on a timeout only after that
\* many writes; and it goes to another write of the request only from a
\* timeout of the waiter, never from a write failure or a cancellation.
C11_RetryCounts ==
    [][\A t \in Tasks :
          /\ InSendAndWait(t)' => task'[t].writes <= MaxWrites(task'[t].req)
          /\ (TimeoutSurfacing(t) /\ task'[t].pc # "delay")
                => task[t].writes = MaxWrites(task[t].req)
          /\ (InSendAndWait(t) /\ task'[t].req = task[t].req
                               /\ task'[t].writes > task[t].writes)
                => task[t].pc = "delay"
          /\ (task[t].pc # "delay" /\ task'[t].pc = "delay")
                => /\ TimeoutSurfacing(t)
                   /\ task'[t].writes = task[t].writes
                   /\ task'[t].req = task[t].req]_vars

\* A CONFIG/EXECUTE was written three times and its third waiter has timed
\* out.
C11_Witness ==
    \E t \in Tasks :
        /\ task[t].req.class_name = "CONFIG"
        /\ task[t].req.class_instr = "EXECUTE"
        /\ task[t].writes = 3
        /\ task[t].timedOut = 2
        /\ TimeoutSurfacing(t)

(***************************************************************************)
(* C12  changePage attempt structure                                       *)
(***************************************************************************)
\* task t is in an attempt of changePage: its PAGEACTIVE/EXECUTE is being
\* written or awaits its PAGEACTIVE/REPORT
InAttempt(t) ==
    /\ task[t].op = "send"
    /\ task[t].req.class_name = "PAGEACTIVE"
    /\ task[t].pc \in {"write", "wait"}

\* the attempt of task t is addressed as its place in the round asks for:
\* the first of a round to the broadcast address, the second to the module
AddressedAsClaimed(t) ==
    /\ task[t].round \in {0, 1}
    /\ task[t].attemptIdx = 1 => (task[t].req.dx = -127 /\ task[t].req.dy = -127)
    /\ task[t].attemptIdx = 2 => (task[t].req.dx = ModuleDx /\ task[t].req.dy = ModuleDy)

\* the attempt that follows the attempt (round, attemptIdx) in a call
FollowsInCall(t) ==
    /\ task'[t].pageIdx = task[t].pageIdx
    /\ task'[t].req.page = task[t].req.page
    /\ \/ task[t].attemptIdx = 1 /\ task'[t].attemptIdx = 2 /\ task'[t].round = task[t].round
       \/ task[t].attemptIdx = 2 /\ task'[t].attemptIdx = 1 /\ task[t].round = 0
                                 /\ task'[t].round = 1

\* sendAndWait of the attempt of task t ends in this step
AttemptEnds(t) ==
    /\ InAttempt(t)
    /\ \/ task'[t].pc \notin {"write", "wait"}
       \/ task'[t].req # task[t].req
       \/ task'[t].writes # task[t].writes
       \/ task[t].pc = "wait" /\ task'[t].pc = "write"

\* the rounds and the order of the attempts, the end at the first
\* confirmation and the result false after four unconfirmed attempts
AttemptOrder(t) ==
    /\ (~InAttempt(t) /\ InAttempt(t)')
          => (task'[t].round = 0 /\ task'[t].attemptIdx = 1)
    /\ (AttemptEnds(t) /\ task[t].waiter.settled = "resolved" /\ task[t].pc = "wait")
          => /\ task[t].waiter.message.cls["PAGENUMBER"] \in
                   {Num(task[t].req.page), Str(NumberToString(task[t].req.page))}
             /\ task'[t].pc # "done" => task'[t].activePage = task[t].req.page
             /\ InAttempt(t)' => task'[t].pageIdx > task[t].pageIdx
    /\ (AttemptEnds(t) /\ ~(task[t].waiter.settled = "resolved" /\ task[t].pc = "wait"))
          => IF task[t].round = 1 /\ task[t].attemptIdx = 2
             THEN task[t].req.page > 0
                     => (task'[t].pc = "done" /\ task'[t].outcome = "thrown")
             ELSE InAttempt(t)' /\ FollowsInCall(t)

\* C12: changePage(n, module) makes at most two rounds; in each round it
\* writes a PAGEACTIVE/EXECUTE to (-127, -127) and then one to (module.dx,
\* module.dy); it returns true at the first attempt a PAGEACTIVE/REPORT with
\* PAGENUMBER = n confirms and makes no further attempt, and it returns false
\* when all four attempts were unconfirmed.
C12_AttemptStructure ==
    [][\A t \in Tasks :
          /\ InAttempt(t)' => AddressedAsClaimed(t)'
          /\ AttemptOrder(t)]_vars

\* The second attempt of the second round is being written.
C12_Witness ==
    \E t \in Tasks :
        /\ InAttempt(t)
        /\ task[t].round = 1
        /\ task[t].attemptIdx = 2
        /\ task[t].pc = "write"

(***************************************************************************)
(* C13  Page-change latch in changePage                                    *)
(***************************************************************************)
\* task t is in the storeToFlash that changePage runs first
InStore(t) ==
    /\ task[t].op = "send"
    /\ task[t].req.class_name = "PAGESTORE"
    /\ InSendAndWait(t)

\* the store of task t has been acknowledged and changePage goes on
StoreSucceeded(t) ==
    /\ InStore(t)
    /\ task[t].pc = "wait"
    /\ task[t].waiter.settled = "resolved"

\* the step starts the first PAGEACTIVE attempt of a changePage call of t
FirstAttemptBegins(t) ==
    /\ InAttempt(t)'
    /\ task'[t].round = 0
    /\ task'[t].attemptIdx = 1
    /\ ~InAttempt(t) \/ task'[t].pageIdx # task[t].pageIdx

\* C13: changePage(n) runs storeToFlash before its first PAGEACTIVE attempt
\* exactly when pageChangeDisabled is set and n > 0; when that store ends the
\* first attempt follows in either case, and the latch is cleared if the
\* store succeeded and stays set if it failed.
C13_LatchInChangePage ==
    [][\A t \in Tasks :
          /\ (InStore(t)' /\ ~InStore(t))
                => (pageChangeDisabled /\ CurrentPage(task'[t]).pageNumber > 0)
          /\ (FirstAttemptBegins(t) /\ pageChangeDisabled
                                    /\ CurrentPage(task'[t]).pageNumber > 0)
                => InStore(t)
          /\ (InStore(t) /\ ~InStore(t)')
                => /\ FirstAttemptBegins(t)
                   /\ task'[t].pc = "write"
                   /\ pageChangeDisabled' = ~StoreSucceeded(t)]_vars

\* The store that changePage ran for page 1 has been acknowledged while the
\* latch is set.
C13_Witness ==
    \E t \in Tasks :
        /\ StoreSucceeded(t)
        /\ pageChangeDisabled
        /\ CurrentPage(task[t]).pageNumber = 1
        /\ ready = <<t>>

(***************************************************************************)
(* C14  Latch cleared by store                                             *)
(***************************************************************************)
\* the PAGESTORE of task t, sent by storeToFlash called directly or by
\* changePage, has been acknowledged and storeToFlash returns in this step
StoreReturns(t) ==
    /\ task[t].req.class_name = "PAGESTORE"
    /\ task[t].pc = "wait"
    /\ task[t].waiter.settled = "resolved"
    /\ ready # <<>>
    /\ Head(ready) = t
    /\ task'[t] # task[t]

\* the step delivers a payload with a DEBUGTEXT that says so
PageChangeDisabledReported ==
    \E frame \in Frames :
        /\ Deliver(frame)
        /\ \E k \in 1..Len(frame) :
              /\ frame[k].class_name = "DEBUGTEXT"
              /\ SaysPageChangeDisabled(frame[k].cls["TEXT"])

\* C14: when a storeToFlash call succeeds, whoever made it, the latch
\* pageChangeDisabled is false afterwards; and the latch becomes set only
\* by a DEBUGTEXT message whose text contains "page change is disabled".
C14_LatchClearedByStore ==
    [][/\ \A t \in Tasks : StoreReturns(t) => ~pageChangeDisabled'
       /\ (~pageChangeDisabled /\ pageChangeDisabled') => PageChangeDisabledReported]_vars

\* A storeToFlash called directly has been acknowledged while the latch is
\* set.
C14_Witness ==
    \E t \in Tasks :
        /\ task[t].op = "store"
        /\ task[t].pc = "wait"
        /\ task[t].waiter.settled = "resolved"
        /\ ready = <<t>>
        /\ pageChangeDisabled

(***************************************************************************)
(* C15  No partial frame                                                   *)
(***************************************************************************)
\* the chunk a _transform step took from the serial stream
ChunkTaken == SubSeq(frInput, 1, Len(frInput) - Len(frInput'))

\* the payloads a step pushed downstream
NewlyEmitted == SubSeq(frEmitted', Len(frEmitted) + 1, Len(frEmitted'))

\* C15: in every step of the framer, on any serial stream (bytes without a
\* message end, well-formed frames, an unfinished frame at the end): payloads
\* are only ever added to the emitted sequence; every payload a step emits
\* ends with EOT followed by two bytes; unless the step is an overflow reset,
\* the emitted payloads, each followed by the newline consumed after it, and
\* then the new buffer are exactly the old buffer followed by the chunk, so
\* the bytes behind the last message end stay in the buffer unemitted; and
\* _flush emits nothing and leaves the buffer empty.
C15_NoPartialFrame ==
    [][/\ IsPrefix(frEmitted, frEmitted')
       /\ \A i \in 1..Len(NewlyEmitted) :
             /\ Len(NewlyEmitted[i]) >= 3
             /\ NewlyEmitted[i][Len(NewlyEmitted[i]) - 2] = EOT
       /\ (frReset' = frReset /\ frFlushed' = frFlushed)
             => FramesOf(NewlyEmitted) \o frBuffer' = frBuffer \o ChunkTaken
       /\ (frFlushed' /\ ~frFlushed)
             => (frEmitted' = frEmitted /\ frBuffer' = <<>>)]_vars

\* The stream has ended after two payloads were emitted and _flush has
\* discarded the start of a third frame.
C15_Witness ==
    /\ frFlushed
    /\ ~frOverflow
    /\ Len(frEmitted) = 2
    /\ frDropped = <<PLAIN, EOT, PLAIN>>
    /\ frSplit

(***************************************************************************)
(* C16  Framer overflow                                                    *)
(***************************************************************************)
\* the buffer a _transform step works on: the old buffer and the chunk
Accumulated == frBuffer \o ChunkTaken

\* no newline of the bytes stands three positions after an EOT
NoDelimiterIn(buf) == \A i \in 4..Len(buf) : ~(buf[i] = NEWLINE /\ buf[i - 3] = EOT)

\* the step resets the buffer and raises the overflow error, emitting nothing
OverflowReset ==
    /\ frBuffer' = <<>>
    /\ frOverflow'
    /\ frReset' = [emitted |-> Len(frEmitted), input |-> frInput']
    /\ frEmitted' = frEmitted

\* Frames that follow a reset: when the input left after the last reset is
\* the frames of the payloads from some index on (and possibly an unfinished
\* frame behind them), the payloads emitted since the reset are always a
\* prefix of those payloads, and all of them once the stream is consumed.
FollowingFramesEmitted ==
    \A k \in 1..(Len(frPayloads) + 1), tail \in Tails :
        LET following == SubSeq(frPayloads, k, Len(frPayloads))
            since == SubSeq(frEmitted, frReset.emitted + 1, Len(frEmitted))
        IN  (frReset # NoReset /\ frReset.input = FramesOf(following) \o tail)
                => /\ IsPrefix(since, following)
                   /\ frInput = <<>> => since = following

NumericValue(value) ==
    IF value.t = "number" THEN value.v ELSE StringToNumber(value.v).v

IsNumeric(value) ==
    \/ value.t = "number"
    \/ value.t = "string" /\ Trim(value.v) # <<>> /\ StringToNumber(value.v).finite

\* SX, SY and HWCFG of the heartbeat are numbers or numeric strings
WellFormedHeartbeat(m) ==
    IsNumeric(m.brc["SX"]) /\ IsNumeric(m.brc["SY"]) /\ IsNumeric(m.cls["HWCFG"])

PositionOf(m) == <<NumericValue(m.brc["SX"]), NumericValue(m.brc["SY"])>>

\* the indices of the heartbeats that are the first from their position
FirstSeen ==
    {i \in 1..Len(heartbeats) : \A j \in 1..(i - 1) : PositionOf(heartbeats[j]) # PositionOf(heartbeats[i])}

\* the last heartbeat from the position of heartbeat i
LatestFrom(i) ==
    heartbeats[CHOOSE j \in 1..Len(heartbeats) :
                  /\ PositionOf(heartbeats[j]) = PositionOf(heartbeats[i])
                  /\ \A k \in (j + 1)..Len(heartbeats) :
                        PositionOf(heartbeats[k]) # PositionOf(heartbeats[i])]

FieldOrZero(value) == IF IsNumeric(value) THEN NumericValue(value) ELSE 0

\* the type names the claim gives for HWCFG
ClaimedType(hwcfg) == IF hwcfg = 1 THEN "BU16" ELSE IF hwcfg = 0 THEN "PO16" ELSE "other"

\* C17: whenever all the heartbeats handled so far carry numeric SX, SY and
\* HWCFG, the inventory has one entry per position seen, in the order in
\* which the positions were first seen, and the entry of a position carries
\* the position, the type of the HWCFG (BU16 for 1, PO16 for 0) and the
\* firmware of the latest heartbeat from that position, a missing or
\* non-numeric firmware field counting as 0.
C17_HeartbeatInventory ==
    (\A i \in 1..Len(heartbeats) : WellFormedHeartbeat(heartbeats[i]))
        => LET first == Ascending(FirstSeen)
           IN  /\ Len(modules) = Len(first)
               /\ \A n \in 1..Len(first) :
                     LET latest == LatestFrom(first[n])
                     IN  /\ <<modules[n].dx, modules[n].dy>> = PositionOf(latest)
                         /\ modules[n].type = ClaimedType(NumericValue(latest.cls["HWCFG"]))
                         /\ modules[n].firmware =
                               [major |-> FieldOrZero(latest.cls["VMAJOR"]),
                                minor |-> FieldOrZero(latest.cls["VMINOR"]),
                                patch |-> FieldOrZero(latest.cls["VPATCH"])]

\* Three heartbeats from two positions: the position seen first is heard
\* again last, as a PO16 after a BU16 and without a numeric VMINOR.
C17_Witness ==
    /\ Len(heartbeats) = 3
    /\ \A i \in 1..3 : WellFormedHeartbeat(heartbeats[i])
    /\ PositionOf(heartbeats[1]) = PositionOf(heartbeats[3])
    /\ PositionOf(heartbeats[1]) # PositionOf(heartbeats[2])
    /\ heartbeats[1].brc["SX"] # heartbeats[3].brc["SX"]
    /\ heartbeats[1].cls["HWCFG"] = Str(<<"1">>)
    /\ heartbeats[3].cls["HWCFG"] = Str(<<"0">>)
    /\ ~IsNumeric(heartbeats[3].cls["VMINOR"])
    /\ Len(modules) = 2
    /\ modules[1].type = "PO16"

(***************************************************************************)
(* C18  Device close sequence                                              *)
(***************************************************************************)
\* some waiter of a call in progress has not settled
SomeWaiterUnsettled(tasks) ==
    \E t \in Tasks : tasks[t].pc \in {"write", "wait"} /\ tasks[t].waiter.settled = "no"

\* the waiters the device holds in pendingWaiters that have not settled
UnsettledPending ==
    {pendingWaiters[i].task : i \in
        {j \in 1..Len(pendingWaiters) : Unsettled(task, pendingWaiters[j])}}

\* C18: in every step of a device with close() called at any point, directly
\* or by disconnect: after the first statement of close() closing is set;
\* the editor-heartbeat timer is cleared only with closing set; the message
\* listener is detached only with closing set and the timer cleared; the
\* step that cancels the waiters runs only with the listener detached,
\* rejects every unsettled waiter of pendingWaiters with Cancelled and
\* leaves pendingWaiters empty and no waiter unsettled; and the connection's
\* close() is called only after all that.
C18_CloseSequence ==
    [][/\ closePc' = "flagged" => closing'
       /\ editorHeartbeatTimer' # editorHeartbeatTimer
             => (closing /\ messageHandler /\ ~editorHeartbeatTimer')
       /\ messageHandler' # messageHandler
             => (closing /\ ~editorHeartbeatTimer /\ ~messageHandler' /\ closeCalls' = closeCalls)
       /\ (closePc = "detached" /\ closePc' # closePc)
             => /\ closing /\ ~editorHeartbeatTimer /\ ~messageHandler
                /\ \A t \in UnsettledPending : task'[t].waiter.settled = "cancelled"
                /\ pendingWaiters' = <<>>
                /\ ~SomeWaiterUnsettled(task')
                /\ closeCalls' = closeCalls
       /\ closeCalls' # closeCalls
             => /\ closing /\ ~editorHeartbeatTimer /\ ~messageHandler
                /\ pendingWaiters = <<>>
                /\ ~SomeWaiterUnsettled(task)
                /\ closePc = "cancelled"]_vars

\* close() has cancelled the waiters of two calls on an open device and is
\* waiting for the port to close.
C18_Witness ==
    /\ closePc = "awaiting"
    /\ port = "closing"
    /\ closing /\ ~editorHeartbeatTimer /\ ~messageHandler
    /\ pendingWaiters = <<>>
    /\ \A t \in Tasks : task[t].waiter.settled = "cancelled"

(***************************************************************************)
(* C19  Shutdown never fails                                               *)
(***************************************************************************)
\* C19 as claimed: no call of GridDevice.close(), made directly or by
\* DeviceManager.disconnect, ends by throwing, whatever the state of the
\* device and whatever port.close() reports.
C19_ShutdownNeverFails ==
    closePc # "thrown"

\* disconnect(device) on an open device: port.close() reported an error,
\* close() threw it, and the device is still registered and open.
C19_Witness ==
    /\ closePc = "thrown"
    /\ closeVia = "disconnect"
    /\ registered
    /\ isOpen
    /\ closing /\ ~messageHandler

(***************************************************************************)
(* C20  waitForModules                                                     *)
(***************************************************************************)
\* the step in which waitForModules returns
WaitReturns == wait.pc # "returned" /\ wait'.pc = "returned"

\* how long the call that returned had blocked
Blocked(w) == w.returnedAt - w.startTime

\* Once the loop has seen a non-empty inventory, at seenAt, the call waits
\* min(500 ms, remaining budget) more and then returns.
TailWait(w) ==
    (w.pc = "returned" /\ w.seenAt >= 0)
        => w.returnedAt = w.seenAt + Min(TAIL_MS, w.timeoutMs - (w.seenAt - w.startTime))

\* C20 as claimed: with timers that fire when they are due, for every budget
\* T and heartbeats arriving at any time, waitForModules(T) returns the
\* inventory as it is at the return, after blocking for no longer than T,
\* and once it has seen a non-empty inventory it waits min(500 ms, remaining
\* budget) more and returns.
C20_WaitForModules ==
    [][WaitReturns
          => /\ wait'.result = modules
             /\ Blocked(wait') <= wait'.timeoutMs
             /\ TailWait(wait')]_vars

\* waitForModules(50) with no heartbeat: it returned the empty inventory
\* after 100 ms.
C20_Witness ==
    /\ wait.pc = "returned"
    /\ wait.timeoutMs = TimeStep
    /\ wait.result = <<>>
    /\ Blocked(wait) = POLL_MS

(***************************************************************************)
(* C21  Validate before touching the device.  On the push path the device  *)
(* is connected, and a device operation is started, only after readConfig  *)
(* returned a configuration and validateConfig found nothing in it; when   *)
(* validation fails, the diagnostics reported are those of every action    *)
(* without a type of every event of every page, and, like when reading     *)
(* fails, no device operation has been performed.                          *)
(***************************************************************************)
\* the device has been connected or an operation of it has been started
DeviceTouched ==
    \/ pushPc = "connected"
    \/ pushDevice # NoDevice
    \/ task[Caller] # IdleTask
    \/ pendingWaiters # <<>>

\* every action of the configuration that has no type
MissingTypes(config) ==
    UNION { UNION { { [page |-> config[p].pageNumber,
                       element |-> config[p].events[e].elementIndex,
                       action |-> i] :
                         i \in { k \in 1..Len(config[p].events[e].shorts) :
                                   ~config[p].events[e].shorts[k] } } :
                    e \in 1..Len(config[p].events) } :
            p \in 1..Len(config) }

ReadFailed == pushPc = "error" /\ pushConfig = <<>>
ValidationFailed == pushPc = "error" /\ pushConfig # <<>> /\ MissingTypes(pushConfig) # {}

C21_ValidateBeforeDevice ==
    /\ DeviceTouched => pushConfig \in PushConfigs /\ MissingTypes(pushConfig) = {}
    /\ pushPc \in {"validated", "connecting"} => MissingTypes(pushConfig) = {}
    /\ ValidationFailed =>
          /\ Range(pushErrors) = MissingTypes(pushConfig)
          /\ Len(pushErrors) = Cardinality(MissingTypes(pushConfig))
          /\ pushThrown = "GridError"
          /\ ~DeviceTouched
    /\ ReadFailed => ~DeviceTouched /\ pushErrors = <<>>

\* a validation that failed with two diagnostics, the device untouched
C21_Witness ==
    /\ ValidationFailed
    /\ Len(pushErrors) = 2
    /\ pushErrors[1].page # pushErrors[2].page
    /\ ~DeviceTouched

(***************************************************************************)
(* C22  No store with --no-store.  When pushCommand runs with noStore set, *)
(* no request of the run is a PAGESTORE/EXECUTE, whatever the device       *)
(* sends.                                                                  *)
(***************************************************************************)
\* the request the caller's device operation wrote last is a store
StoreWritten ==
    /\ task[Caller].writes > 0
    /\ task[Caller].req.class_name = "PAGESTORE"
    /\ task[Caller].req.class_instr = "EXECUTE"

C22_NoStoreWritten == pushOpts.noStore => ~StoreWritten

\* a run with noStore in which changePage, the latch set by the device's
\* debug text, has written the store before page 1
C22_Witness ==
    /\ pushOpts.noStore
    /\ pushPc = "connected"
    /\ task[Caller].op = "send"
    /\ CurrentPage(task[Caller]).pageNumber = 1
    /\ StoreWritten

(***************************************************************************)
(* C23  Default page skip.  As claimed: a page all of whose events are     *)
(* equal to the default has no page-N.lua in the written directory and is  *)
(* not in the pages of module.json, and the pages read back are the pages  *)
(* of module.json.  As it holds: the same, except for page 0 of a module   *)
(* in which every event of every page holds its default or nothing, which  *)
(* gets the page-0.lua of the empty module and is listed.                  *)
(***************************************************************************)
\* the event holds what the library gives as its default (nothing, when the
\* library gives none)
EqualsDefault(event, defaults) ==
    LET defaultActions == getDefaultActions(ElementTypesOf(ProtocolElements)[event.elementIndex],
                                            event.eventType, defaults)
    IN  IF defaultActions.has THEN actionsMatch(event.actions, defaultActions.actions)
        ELSE event.actions = <<>>

AllDefault(page, defaults) ==
    \A i \in 1..Len(page.events) : EqualsDefault(page.events[i], defaults)

HasPageFile(dir, pageNumber) == \E i \in 1..Len(dir.files) : dir.files[i].page = pageNumber

Skipped(dir, pageNumber) ==
    ~HasPageFile(dir, pageNumber) /\ pageNumber \notin Range(dir.manifest.pages)

ReadBackPages == [i \in 1..Len(readBack) |-> readBack[i].pageNumber]

C23_Claimed ==
    /\ codecPc \in {"written", "read"} =>
          \A i \in 1..Len(codecConfig) :
              AllDefault(codecConfig[i], codecDefaults)
                  => Skipped(codecDir, codecConfig[i].pageNumber)
    /\ codecPc = "read" => ReadBackPages = codecDir.manifest.pages

\* page 0 of a module in which every event of every page holds its default
\* or nothing
SentinelCase(i) ==
    /\ codecConfig[i].pageNumber = 0
    /\ \A j \in 1..Len(codecConfig) : \A k \in 1..Len(codecConfig[j].events) :
          \/ EqualsDefault(codecConfig[j].events[k], codecDefaults)
          \/ codecConfig[j].events[k].actions = <<>>

C23_DefaultPageSkip ==
    /\ codecPc \in {"written", "read"} =>
          \A i \in 1..Len(codecConfig) :
              AllDefault(codecConfig[i], codecDefaults) /\ ~SentinelCase(i)
                  => Skipped(codecDir, codecConfig[i].pageNumber)
    /\ codecPc = "read" => ReadBackPages = codecDir.manifest.pages

\* page 1 holds the library's defaults only, page 0 does not: read back, the
\* module has page 0 only
C23_Witness ==
    /\ codecPc = "read"
    /\ Len(codecConfig) = 2
    /\ codecConfig[2].pageNumber = 1
    /\ AllDefault(codecConfig[2], codecDefaults)
    /\ \E i \in 1..Len(codecConfig[2].events) : codecConfig[2].events[i].actions # <<>>
    /\ ~AllDefault(codecConfig[1], codecDefaults)
    /\ Skipped(codecDir, 1)
    /\ ReadBackPages = <<0>>

(***************************************************************************)
(* C24  Empty-module sentinel.  When every event of every page of the      *)
(* configuration equals its default, the directory written holds one page  *)
(* file, page-0.lua, of front-matter and a comment, and module.json lists  *)
(* the pages [0]; the configuration read back is the one written: every    *)
(* (page, element, event type) has the same actions in both, a page or an  *)
(* event that one of them does not hold counting as holding the default.   *)
(* In every case the directory holds a page file at least, and the pages   *)
(* of module.json are the pages of the files, ascending.                   *)
(***************************************************************************)
EveryEventDefault(config, defaults) ==
    \A i \in 1..Len(config) : AllDefault(config[i], defaults)

\* the actions a configuration holds at a place, the default where it holds
\* none
ActionsAt(config, pageNumber, elementIndex, eventType, defaults) ==
    LET held == { config[i].events[j].actions :
                    <<i, j>> \in { x \in (1..Len(config)) \X (1..Len(FetchedEvents(defaults))) :
                                     /\ x[2] <= Len(config[x[1]].events)
                                     /\ config[x[1]].pageNumber = pageNumber
                                     /\ config[x[1]].events[x[2]].elementIndex = elementIndex
                                     /\ config[x[1]].events[x[2]].eventType = eventType } }
        defaultActions == getDefaultActions(ElementTypesOf(ProtocolElements)[elementIndex],
                                            eventType, defaults)
    IN  IF held # {} THEN CHOOSE actions \in held : TRUE
        ELSE IF defaultActions.has THEN defaultActions.actions
        ELSE <<>>

SameConfiguration(written, read, defaults) ==
    \A pageNumber \in Range(PageNumbersOf(written)) \cup Range(PageNumbersOf(read)) :
        \A k \in 1..Len(FetchedEvents(defaults)) :
            LET slot == FetchedEvents(defaults)[k]
            IN  actionsMatch(
                    ActionsAt(written, pageNumber, slot.elementIndex, slot.eventType, defaults),
                    ActionsAt(read, pageNumber, slot.elementIndex, slot.eventType, defaults))

FilePages(dir) == [i \in 1..Len(dir.files) |-> dir.files[i].page]

IsSentinelFile(file) ==
    /\ file.page = 0
    /\ \E i \in 1..Len(file.lines) : file.lines[i].kind = "grid"
    /\ \E i \in 1..Len(file.lines) : file.lines[i].kind = "--"
    /\ \A i \in 1..Len(file.lines) :
          \/ file.lines[i].kind \in {"grid", "--"}
          \/ IsBlankLine(file.lines[i])

NormalizedLines(lines) ==
    LET kept == SelectSeq(lines, LAMBDA line : ~IsBlankLine(line))
    IN  [i \in 1..Len(kept) |->
            IF kept[i].kind = "text" THEN TextLine(normalizeCode(kept[i].a)) ELSE kept[i]]

NormalizedFiles(dir) ==
    { File(dir.files[i].page, NormalizedLines(dir.files[i].lines)) : i \in 1..Len(dir.files) }

C25_Idempotence ==
    codecPc = "rewritten" => NormalizedFiles(writtenAgain) = NormalizedFiles(codecDir)

\* an action without code is written with its header, read back as no
\* action, and the event is not written the second time
C25_Witness ==
    /\ codecPc = "rewritten"
    /\ \E i \in 1..Len(codecConfig) : \E j \in 1..Len(codecConfig[i].events) :
          /\ Len(codecConfig[i].events[j].actions) = 1
          /\ codecConfig[i].events[j].actions[1].code = <<>>
    /\ NormalizedFiles(writtenAgain) # NormalizedFiles(codecDir)

(***************************************************************************)
(* C26  Page-number invariant.  Every page that fetchModuleConfig has      *)
(* fetched and every page of a configuration that readConfig returned has  *)
(* a number in 0 .. NUM_PAGES - 1.                                         *)
(***************************************************************************)
DevicePages == 0..(NUM_PAGES - 1)

FetchedPageNumbers == Range(pageNumbers) \cup Range(pages)

C26_PageNumbers ==
    /\ command = "pull" => FetchedPageNumbers \subseteq DevicePages
    /\ codecPc = "read" => Range(PageNumbersOf(readBack)) \subseteq DevicePages

\* readConfig has returned the page 4 that the front-matter of page-0.lua
\* names, module.json listing page 0
C26_Witness ==
    /\ codecPc = "read"
    /\ codecDir.manifest.pages = <<0>>
    /\ FilePages(codecDir) = <<0>>
    /\ PageNumbersOf(readBack) = <<0, NUM_PAGES>>

(***************************************************************************)
(* C27  Manifest element type wins.  When the header of an event block     *)
(* names an element type other than the one module.json gives the element, *)
(* the event name is resolved with the type of module.json: if the name    *)
(* is an event of that type, the event of that code holds, in the          *)
(* configuration returned, the actions of the block.                       *)
(***************************************************************************)
ManifestType(dir, elementIndex) ==
    LET k == CHOOSE k \in 1..Len(dir.manifest.elements) :
                dir.manifest.elements[k].index = elementIndex
    IN  dir.manifest.elements[k].type

\* the event blocks of the one page file whose header disagrees with
\* module.json
Mismatches(dir) ==
    IF Len(dir.files) # 1 THEN {}
    ELSE { eventMeta \in Range(readPageFile(dir.files[1]).events) :
             /\ \E k \in 1..Len(dir.manifest.elements) :
                   dir.manifest.elements[k].index = eventMeta.elementIndex
             /\ eventMeta.elementType # ""
             /\ eventMeta.elementType # ManifestType(dir, eventMeta.elementIndex) }

\* the page read holds the actions for the event of that element
Holds(page, elementIndex, eventType, actions) ==
    \E j \in 1..Len(page.events) :
        /\ page.events[j].elementIndex = elementIndex
        /\ page.events[j].eventType = eventType
        /\ page.events[j].actions = actions

C27_ManifestTypeWins ==
    codecPc = "read" =>
        \A eventMeta \in Mismatches(codecDir) :
            LET eventType == getEventTypeFromName(
                                 ManifestType(codecDir, eventMeta.elementIndex),
                                 eventMeta.eventName, codecDefaults)
            IN  eventType # -1 =>
                  \E i \in 1..Len(readBack) :
                      Holds(readBack[i], eventMeta.elementIndex, eventType, eventMeta.actions)

\* module.json gives element 1 the type endless, the header of its endless
\* event says button: the block is dropped and the event read holds nothing
C27_Witness ==
    /\ codecPc = "read"
    /\ \E eventMeta \in Mismatches(codecDir) :
          /\ eventMeta.elementType = "button"
          /\ eventMeta.eventName = "endless"
          /\ eventMeta.actions # <<>>
    /\ Len(readBack) = 1
    /\ Holds(readBack[1], 1, 7, <<>>)

(***************************************************************************)
(* C28  parsePageList grammar.  parsePageList(s) returns the union of what *)
(* the items of s contribute, an item being a non-negative integer n, for  *)
(* n, or lo-hi with lo <= hi, for lo..hi, and it raises an error if an     *)
(* item is of neither form.  Items are taken without the white space       *)
(* around them and around the numbers, and empty items are passed over.    *)
(***************************************************************************)
IsNaturalText(s) == s # <<>> /\ \A i \in 1..Len(s) : s[i] \in DOMAIN DigitValue

ItemsOf(s) ==
    { Trim(Split(s, ",")[i]) : i \in 1..Len(Split(s, ",")) } \ {<<>>}

IsRangeItem(item) ==
    /\ Cardinality({i \in 1..Len(item) : item[i] = "-"}) = 1
    /\ IsNaturalText(Trim(Split(item, "-")[1]))
    /\ IsNaturalText(Trim(Split(item, "-")[2]))
    /\ DecimalValue(Trim(Split(item, "-")[1])) <= DecimalValue(Trim(Split(item, "-")[2]))

WellFormedItem(item) == IsNaturalText(item) \/ IsRangeItem(item)

Contribution(item) ==
    IF IsNaturalText(item) THEN {DecimalValue(item)}
    ELSE DecimalValue(Trim(Split(item, "-")[1]))..DecimalValue(Trim(Split(item, "-")[2]))

C28_PageListGrammar ==
    pageListResult.called =>
        IF \A item \in ItemsOf(pageListInput) : WellFormedItem(item)
        THEN /\ ~pageListResult.thrown
             /\ pageListResult.pages = UNION {Contribution(item) : item \in ItemsOf(pageListInput)}
        ELSE pageListResult.thrown

\* parsePageList("-1") has returned {0, 1}
C28_Witness ==
    /\ pageListInput = <<"-", "1">>
    /\ pageListResult.called
    /\ ~pageListResult.thrown
    /\ pageListResult.pages = {0, 1}

(***************************************************************************)
(* C29  Send ordering within a page.  In sendModuleConfig the first write  *)
(* of a CONFIG/EXECUTE is that of the event following, in the event list   *)
(* of the current page, the event written before; it follows the change to *)
(* the page, for the first event, or the acknowledged send of the previous *)
(* event, for the others.  A send that failed ends sendModuleConfig with   *)
(* an error, on a timeout only after the retries, and nothing is written   *)
(* after that.                                                             *)
(***************************************************************************)
IsConfigExecute(req) == req.class_name = "CONFIG" /\ req.class_instr = "EXECUTE"

\* the step writes the CONFIG/EXECUTE of an event for the first time
EventWritten(before, after) ==
    /\ after.op = "send"
    /\ after.pc = "write"
    /\ IsConfigExecute(after.req)
    /\ after.writes = 1
    /\ <<after.pageIdx, after.eventIdx>> # <<before.pageIdx, before.eventIdx>>

\* the send of the previous event has been acknowledged
Acknowledged(tk) ==
    /\ tk.pc = "pause"
    /\ IsConfigExecute(tk.req)
    /\ tk.waiter.settled = "resolved"
    /\ tk.waiter.message.class_name = "CONFIG"
    /\ tk.waiter.message.class_instr = "ACKNOWLEDGE"

\* the step ends the send of an event by an error
SendFails(before, after) ==
    /\ before.op = "send"
    /\ before.pc \in {"write", "wait"}
    /\ IsConfigExecute(before.req)
    /\ after.pc \notin {"write", "wait", "delay"}
    /\ ~Acknowledged(after)

C29_Step(before, after) ==
    /\ EventWritten(before, after) =>
          /\ before.op = "send"
          /\ after.config = before.config
          /\ after.pageIdx = before.pageIdx
          /\ after.eventIdx = before.eventIdx + 1
          /\ after.eventIdx <= Len(CurrentPage(after).events)
          /\ after.req.page = CurrentPage(after).pageNumber
          /\ after.activePage = CurrentPage(after).pageNumber
          /\ IF before.eventIdx = 0
             THEN before.req.class_name = "PAGEACTIVE"
             ELSE Acknowledged(before)
    /\ SendFails(before, after) =>
          /\ after.pc = "done"
          /\ after.outcome = "thrown"
          /\ (before.pc = "wait" /\ before.waiter.settled = "timeout")
                => before.attempt = before.req.retries
    /\ (before.op = "send" /\ before.pc = "done" /\ before.outcome = "thrown") =>
          after = before

C29_SendOrdering == [][C29_Step(task[Caller], task'[Caller])]_vars

\* the second event of page 1 is being written, the first acknowledged
C29_Witness ==
    /\ task[Caller].op = "send"
    /\ task[Caller].pc = "write"
    /\ IsConfigExecute(task[Caller].req)
    /\ CurrentPage(task[Caller]).pageNumber = 1
    /\ task[Caller].eventIdx = 2
    /\ task[Caller].waiter.settled = "no"

\* ------------------------------------------------------------------
\* C30  Link waiter consumption
\* ------------------------------------------------------------------
\* the waiters that the last payload resolved, each one a waiter whose
\* predicate accepted the payload (waitForMessage attaches one "message"
\* listener per waiter, and each listener tests its own predicate)
ResolvedByPayload == {w \in connDelivered : connWaiterState[w] = "resolved"}

\* C30: when a payload arrives that satisfies the predicate of more than
\* one registered waitForMessage waiter, only the first matching waiter in
\* registration order is resolved with it and the other matching waiters
\* stay pending: one payload never resolves more than one waiter.
C30_FirstMatchOnly == Cardinality(ResolvedByPayload) <= 1

\* three waiters are registered in the order 1, 2, 3; one payload that the
\* predicates of the waiters 1 and 2 accept has resolved both of them, and
\* the waiter 3 is still pending
C30_Witness ==
    /\ connDelivered = {1, 2}
    /\ connWaiterState[1] = "resolved"
    /\ connWaiterState[2] = "resolved"
    /\ connWaiterState[3] = "pending"
    /\ connWaiters = <<3>>

(***************************************************************************)
(* C31  No operation after close                                           *)
(***************************************************************************)
\* close() has been called and has reached the await of connection.close()
\* or has ended
CloseCalled == closing /\ closePc \in {"awaiting", "returned", "thrown"}

\* Task t is in the first attempt of an operation that was started after
\* close() was called: close() settles every waiter registered before it,
\* and a later attempt of an earlier operation has attempt > 0.  Its
\* request has been handed to port.write (the task is at or past the await
\* of connection.write, which the guard of write() let pass).
WrittenAfterClose(t) ==
    /\ CloseCalled
    /\ task[t].pc \in {"write", "wait"}
    /\ task[t].attempt = 0
    /\ task[t].waiter.settled = "no"

\* C31: once GridDevice.close() has been called, an operation started
\* afterwards fails without writing a request to the port: no task is ever
\* in an operation that was started after close() and whose request was
\* handed to the port.
C31_NoOperationAfterClose == \A t \in Tasks : ~WrittenAfterClose(t)

\* close() was called on an open device and port.close() failed, so that
\* close() threw and the connection still reports open; a fetch started
\* after that has written its request, the write has completed, and the
\* fetch now waits for a response that handleMessage will never see
C31_Witness ==
    /\ closePc = "thrown"
    /\ isOpen
    /\ port = "open"
    /\ ~messageHandler
    /\ \E t \in Tasks :
          /\ WrittenAfterClose(t)
          /\ task[t].op = "fetch"
          /\ task[t].pc = "wait"

(***************************************************************************)
(* C32  Closing gate                                                       *)
(***************************************************************************)
\* a waiter that was not resolved before the step is resolved after it
NewlyResolved(t) ==
    /\ task'[t].waiter.settled = "resolved"
    /\ task[t].waiter # task'[t].waiter

\* C32: from the moment close() has set closing, no step changes the
\* module inventory, sets the page-change latch or resolves a waiter,
\* whatever payloads reach handleMessage: they are ignored.
C32_ClosingGate ==
    [][closing =>
          /\ modules' = modules
          /\ pageChangeDisabled' => pageChangeDisabled
          /\ \A t \in Tasks : ~NewlyResolved(t)]_vars

\* close() has been called on a device that had discovered nothing and had
\* not seen the latch text; a fetch made afterwards has written its
\* request and waits with its waiter registered, while payloads (the
\* matching CONFIG/REPORT, heartbeats, the "page change is disabled" text)
\* keep reaching handleMessage
C32_Witness ==
    /\ closing
    /\ modules = <<>>
    /\ ~pageChangeDisabled
    /\ ready = <<>>
    /\ task[Caller].op = "fetch"
    /\ task[Caller].pc = "wait"
    /\ task[Caller].waiter.settled = "no"
    /\ pendingWaiters = <<Entry(Caller, task[Caller].attempt)>>
    /\ \E frame \in Frames :
          \E i \in 1..Len(frame) : tryMatch(task, pendingWaiters[1], frame[i])

(***************************************************************************)
(* C33  Overflow only without a delimiter                                  *)
(***************************************************************************)
\* the _transform step raised the overflow error and discarded the buffer
OverflowRaised == frReset' # frReset

\* C33: a _transform step raises the overflow error and discards its
\* buffer only when the buffer (the old buffer and the chunk) holds no
\* delimiter, so that a complete frame that has been received is never
\* discarded by the overflow check, whatever the size of the chunk that
\* completed it.
C33_OverflowOnlyWithoutDelimiter ==
    [][OverflowRaised => NoDelimiterIn(Accumulated)]_vars

\* The stream was one well-formed frame longer than MAX_BUFFER_SIZE; the
\* chunk that brought its newline made the buffer longer than the limit,
\* the overflow error was raised and the frame was discarded: the stream is
\* consumed and nothing was emitted.
C33_Witness ==
    /\ Len(frPayloads) = 1
    /\ Len(frameMessage(frPayloads[1])) > MAX_BUFFER_SIZE
    /\ frInput = <<>>
    /\ frOverflow
    /\ frReset = [emitted |-> 0, input |-> <<>>]
    /\ frEmitted = <<>>
    /\ frBuffer = <<>>
    /\ ~frFlushed

(***************************************************************************)
(* C34  One-shot waiter                                                    *)
(***************************************************************************)
\* the ResponseWaiter of a task has settled: resolved with a message,
\* rejected with the TimeoutError, or rejected with "Cancelled"
Settled(w) == w.settled \in {"resolved", "timeout", "cancelled"}

\* C34: a ResponseWaiter settles at most once.  In every step, whatever
\* happens to a waiter that has settled (a matching message reaches
\* tryMatch, its timer fires, cancel() is called by sendAndWait or by
\* close()), the waiter keeps the way it settled and the message it was
\* resolved with; the task only ever replaces it by the new waiter of its
\* next request or drops it when the call ends.
C34_OneShotWaiter ==
    [][\A t \in Tasks :
          (Settled(task[t].waiter) /\ Settled(task'[t].waiter))
              => task'[t].waiter = task[t].waiter]_vars

\* The timer of a waiter fired while connection.write was still pending:
\* the waiter is rejected with the TimeoutError and is still in
\* pendingWaiters, and the device then sends the response that matches its
\* filter; tryMatch has to return false for it.
C34_Witness ==
    /\ task[Caller].pc = "write"
    /\ task[Caller].op = "fetch"
    /\ task[Caller].waiter.settled = "timeout"
    /\ pendingWaiters = <<Entry(Caller, task[Caller].attempt)>>
    /\ ~closing
    /\ ready = <<>>
    /\ \E frame \in Frames :
          \E i \in 1..Len(frame) :
              matchesFilter(frame[i], task[Caller].req.filter)

(***************************************************************************)
(* C35  One request in flight                                              *)
(***************************************************************************)
\* the tasks whose request is outstanding: written or being written, its
\* waiter not settled
Outstanding(tasks) ==
    {t \in Tasks : tasks[t].pc \in {"write", "wait"} /\ tasks[t].waiter.settled = "no"}

\* the step starts a connection.write of task t: a first attempt or a retry
WriteStarts(t) ==
    /\ task'[t].pc = "write"
    /\ task[t].pc # "write" \/ task'[t].writes # task[t].writes

\* C35: under a caller that awaits each call before it makes the next one
\* (pull, push, clear), pendingWaiters never holds more than one waiter and
\* at most one request is outstanding; a request is written only when no
\* other is outstanding, the previous one having been answered or timed
\* out before the step, or failing in the step itself (its
\* connection.write is rejected and the caller goes on to its next request).
C35_OneRequestInFlight ==
    [][/\ Len(pendingWaiters') <= 1
       /\ Cardinality(Outstanding(task')) <= 1
       /\ \A t \in Tasks :
             WriteStarts(t) =>
                 \A u \in Outstanding(task) : u = t /\ task[t].pc = "write"]_vars

\* sendModuleConfig is at its second request of a page (the first event was
\* sent and acknowledged, the pause is over, the second event is being
\* written), with exactly this request's waiter in pendingWaiters
C35_Witness ==
    /\ task[Caller].op = "send"
    /\ task[Caller].pc = "write"
    /\ task[Caller].req.class_name = "CONFIG"
    /\ task[Caller].activePage = 1
    /\ task[Caller].pageIdx = 2
    /\ task[Caller].waiter.settled = "no"
    /\ pendingWaiters = <<Entry(Caller, 0)>>
    /\ Outstanding(task) = {Caller}

(***************************************************************************)
(* C36  No waiter leak                                                     *)
(***************************************************************************)
\* the entries of pendingWaiters that task t registered
EntriesOf(t) == {i \in 1..Len(pendingWaiters) : pendingWaiters[i].task = t}

\* task t is inside a sendAndWait call: at the await of connection.write,
\* of the waiter, or of the retry delay
InsideSendAndWait(t) == task[t].pc \in {"write", "wait", "delay"}

\* C36: whenever a sendAndWait call has returned or thrown (success,
\* timeout with or without retries, write failure, cancellation), no waiter
\* of the call is in pendingWaiters and its last waiter is settled; inside
\* a call pendingWaiters holds at most one waiter of it, the one of the
\* current attempt, or during the retry delay the settled one of the
\* attempt before, which is removed before the next one is registered.
C36_NoWaiterLeak ==
    \A t \in Tasks :
        /\ ~InsideSendAndWait(t) => (EntriesOf(t) = {} /\ task[t].waiter.settled # "no")
        /\ Cardinality(EntriesOf(t)) <= 1
        /\ \A i \in EntriesOf(t) :
              IF task[t].pc = "delay"
              THEN /\ pendingWaiters[i].attempt = task[t].attempt - 1
                   /\ task[t].waiter.settled = "timeout"
              ELSE pendingWaiters[i].attempt = task[t].attempt

\* a fetch has returned after its sendAndWait timed out on the first
\* attempt and on the retry: pendingWaiters is empty and the last waiter
\* is settled
C36_Witness ==
    /\ task[Caller].op = "fetch"
    /\ task[Caller].pc = "done"
    /\ task[Caller].error = "TimeoutError"
    /\ task[Caller].timedOut = 2
    /\ task[Caller].waiter.settled = "timeout"
    /\ pendingWaiters = <<>>
    /\ ~closing

(***************************************************************************)
(* C37  Acknowledgement correlation                                        *)
(***************************************************************************)
\* the event whose CONFIG/EXECUTE sendEventConfig has written last
CurrentEvent(tk) == CurrentPage(tk).events[tk.eventIdx]

\* the acknowledgement names the EXECUTE it answers
NamesExecute(message) == message.cls["PAGENUMBER"] # Undefined

\* the acknowledgement answers an EXECUTE written for this event
Acknowledges(message, pageNumber, event) ==
    /\ message.cls["PAGENUMBER"] = Num(pageNumber)
    /\ message.cls["ELEMENTNUMBER"] = Num(event.elementIndex)
    /\ message.cls["EVENTTYPE"] = Num(event.eventType)

\* sendEventConfig of the current event was completed by an acknowledgement
SendCompleted(tk) ==
    /\ tk.op = "send"
    /\ tk.pc \in {"wait", "pause"}
    /\ tk.req.class_name = "CONFIG"
    /\ tk.req.class_instr = "EXECUTE"
    /\ tk.waiter.settled = "resolved"

\* C37: the CONFIG/ACKNOWLEDGE that completes sendEventConfig for an event
\* acknowledges an EXECUTE written for that same event; an acknowledgement
\* that the module sent for an earlier transmission never completes the
\* send of a later event.
C37_AckCorrelation ==
    \A t \in Tasks :
        (SendCompleted(task[t]) /\ NamesExecute(task[t].waiter.message))
            => Acknowledges(task[t].waiter.message, CurrentPage(task[t]).pageNumber,
                            CurrentEvent(task[t]))

\* sendModuleConfig has sent the event of page 0 and, on page 1, written the
\* EXECUTE of element 0, event type 3; the acknowledgement that completed
\* this second send is one the module sent for the EXECUTE of page 0, and
\* sendModuleConfig is in the pause before it goes on
C37_Witness ==
    /\ task[Caller].op = "send"
    /\ task[Caller].pc = "pause"
    /\ task[Caller].pageIdx = 2
    /\ CurrentPage(task[Caller]).pageNumber = 1
    /\ CurrentEvent(task[Caller]) = Event(0, 3, FALSE)
    /\ task[Caller].waiter = [settled |-> "resolved", message |-> ConfigAckFor(0, 0, 0)]
    /\ ~closing

(***************************************************************************)
(* C38  Register before write                                              *)
(***************************************************************************)
\* the first message of a payload that the filter of request req accepts
\* (0 when there is none)
FirstMatch(frame, req) ==
    LET hits == {i \in 1..Len(frame) : matchesFilter(frame[i], req.filter)}
    IN  IF hits = {} THEN 0 ELSE CHOOSE i \in hits : \A j \in hits : i <= j

\* the tasks as handleMessage leaves them when the payload arrives now
AfterPayload(frame) ==
    handleMessage(DeviceState(task, pendingWaiters, pageChangeDisabled, modules, <<>>),
                  frame).task

\* C38: the waiter of a request is in pendingWaiters from before
\* connection.write is called until it settles, so that a matching response
\* that reaches handleMessage at any time after the write has started and
\* before the timeout (while the write is pending or after it) resolves
\* that request with it; no response is lost between sending and waiting.
C38_RegisterBeforeWrite ==
    \A t \in Outstanding(task) :
        /\ EntriesOf(t) # {}
        /\ \A frame \in Frames :
              (~closing /\ FirstMatch(frame, task[t].req) # 0)
                  => AfterPayload(frame)[t].waiter =
                        [settled |-> "resolved",
                         message |-> frame[FirstMatch(frame, task[t].req)]]

\* the response to a fetch reached handleMessage while connection.write was
\* still pending and resolved the waiter; the fetch will get it when the
\* write has completed
C38_Witness ==
    /\ task[Caller].op = "fetch"
    /\ task[Caller].pc = "write"
    /\ task[Caller].attempt = 0
    /\ task[Caller].waiter.settled = "resolved"
    /\ task[Caller].waiter.message.class_name = "CONFIG"
    /\ task[Caller].waiter.message.class_instr = "REPORT"
    /\ pendingWaiters = <<>>
    /\ ~closing

(***************************************************************************)
(* C39  Push targets and final store                                       *)
(***************************************************************************)
\* the step starts the device operation op of the run
OperationStarts(op) ==
    /\ task'[Caller].op = op
    /\ task'[Caller].pc # "done"
    /\ task[Caller].op # op \/ task[Caller].pc = "done"

\* C39: in every step of a push run, sendModuleConfig is started only for
\* a device module at the (dx, dy) of the configuration and of its type;
\* the final storeToFlash is started only after sendModuleConfig has
\* returned and with the no-store option absent; while the device has no
\* such module nothing is sent or stored; and a run that got as far as the
\* device ends without an error only after the configuration was pushed
\* to such a module (and stored, unless no-store was given): when no module
\* was pushed it fails.
C39_Step ==
    /\ OperationStarts("send") =>
          /\ pushDevice.dx = ConfigModule.dx
          /\ pushDevice.dy = ConfigModule.dy
          /\ pushDevice.type = ConfigModule.type
    /\ OperationStarts("store") => (Returned("send") /\ ~pushOpts.noStore)
    /\ (pushPc = "connected" /\ pushDevice.type # ConfigModule.type)
          => task'[Caller].op \notin {"send", "store"}
    /\ (pushPc = "connected" /\ pushPc' = "done") =>
          /\ pushDevice = ConfigModule
          /\ IF pushOpts.noStore THEN Returned("send") ELSE Returned("store")
    /\ (pushPc = "connected" /\ pushPc' \in {"done", "error"}
            /\ pushDevice # ConfigModule) => pushThrown' # ""

SelectedPages == {page \in 0..(NUM_PAGES - 1) : PageSelected(page, includePages, excludePages)}

\* the (element, event type) pairs of a module type
EventPairs(type) ==
    {<<element, eventType>> \in Range(getElementIndices(type)) \X (0..6) :
        eventType \in Range(getSupportedEvents(getElementType(type, element)))}

KeyOf(event) == <<event.elementIndex, event.eventType>>

\* where an event type stands in the descriptor of its element
DescriptorPlace(type, event) ==
    LET supported == getSupportedEvents(getElementType(type, event.elementIndex))
    IN CHOOSE i \in 1..Len(supported) : supported[i] = event.eventType

\* one event per pair, elements ascending, then event types in descriptor
\* order
CompleteEvents(type, events) ==
    /\ \A i \in 1..Len(events) : KeyOf(events[i]) \in EventPairs(type)
    /\ \A key \in EventPairs(type) :
          Cardinality({i \in 1..Len(events) : KeyOf(events[i]) = key}) = 1
    /\ \A i, j \in 1..Len(events) :
          i < j =>
             \/ events[i].elementIndex < events[j].elementIndex
             \/ /\ events[i].elementIndex = events[j].elementIndex
                /\ DescriptorPlace(type, events[i]) < DescriptorPlace(type, events[j])

\* fetchModuleConfig has returned its ModuleConfig
FetchReturned == command = "pull" /\ pc = "done"

CompleteConfig ==
    FetchReturned =>
        /\ Len(fetchedPages) = Cardinality(SelectedPages)
        /\ {fetchedPages[i].pageNumber : i \in 1..Len(fetchedPages)} = SelectedPages
        /\ \A i \in 1..Len(fetchedPages) :
              CompleteEvents(moduleType, fetchedPages[i].events)

\* the events pushed last: those of the page being fetched, or of the page
\* pushed last
LastEvents ==
    IF fetchedEvents # <<>> THEN fetchedEvents
    ELSE IF fetchedPages # <<>> THEN fetchedPages[Len(fetchedPages)].events
    ELSE <<>>

\* the event pushed last, as a list: empty when none was pushed
LastFetched == IF LastEvents = <<>> THEN <<>> ELSE << LastEvents[Len(LastEvents)] >>

\* a fetchEventConfig fails and fetchModuleConfig goes on
FailedBelowThreshold ==
    /\ pc = "fetching"
    /\ failedCount' = failedCount + 1
    /\ pc' # "error"

FailedKept ==
    FailedBelowThreshold =>
        LastFetched' = << EventConfig(ElementAt(moduleType, fetchAt),
                                      SupportedEventsAt(moduleType, fetchAt)[fetchAt.event],
                                      <<>>) >>

\* C40: the ModuleConfig that fetchModuleConfig returns holds one page per
\* selected page, and each page holds exactly one EventConfig per (element,
\* supported event type) of the module, elements ascending and the event
\* types of an element in descriptor order; a fetch that fails below the
\* abort threshold puts its event there with an empty action list.
C40_FetchCompleteness == []CompleteConfig /\ [][FailedKept]_vars

\* a returned configuration of a module with two elements, one of whose
\* fetches failed
C40_Witness ==
    /\ FetchReturned
    /\ moduleType = "TEK2"
    /\ failedCount > 0
    /\ fetchedPages # <<>>
    /\ \E i \in 1..Len(fetchedPages[1].events) : fetchedPages[1].events[i].actions = <<>>

====
